---- MODULE Spec2Model ----
(***************************************************************************)
(* A model of PSyclone's loop-blocking transformation (BlockLoopTrans) on  *)
(* a PSyIR tree, and of the NEMO intrinsic lowerings (ABS, SIGN, MIN) of   *)
(* examples/nemo/eg4/sir_trans_intrinsics.py.  Further sections model the *)
(* loop tiling and kernel inlining transformations, the children list and  *)
(* ancestor search of a Node, region transformations, profiling and the    *)
(* adjoint generation of psyad; each section says what the variables hold  *)
(* in its specification.                                                   *)
(*                                                                         *)
(* Real values are modelled by integers: the lowerings only compare with   *)
(* zero, compare two values and multiply by -1.0, all of which are exact   *)
(* on the integers.                                                        *)
(***************************************************************************)
EXTENDS Integers, Sequences, FiniteSets, TLC

VARIABLES
    nodes,    \* the PSyIR tree: a sequence of node records, a node is its index
    symtab,   \* the symbol table of the Routine: [names, tags]
    mem,      \* the values the program's variables hold when the routine starts
    kern,     \* the kernel that KernelModuleInlineTrans is given
    last,     \* the last transformation call: its inputs and its outcome
    given,    \* the NEMO kernel as written: its statements and its memory
    sched,    \* the statements of the NEMO kernel schedule
    lsym,     \* the names in the symbol table handed to the lowerings
    env,      \* the values of the kernel's variables while it executes
    pc        \* 0 while the kernel is transformed, then the next statement

lowerVars == <<given, sched, lsym, env, pc>>

vars == <<nodes, symtab, mem, kern, last, given, sched, lsym, env, pc>>

(***************************************************************************)
(* Bounds of the model.                                                    *)
(***************************************************************************)
MaxN == 2
MaxStep == 2
MaxBlock == 2

\* options.get("blocksize", 32)
DefaultBlockSize == 32

Abs(x) == IF x < 0 THEN -x ELSE x
Min2(x, y) == IF x < y THEN x ELSE y
Max2(x, y) == IF x > y THEN x ELSE y

(***************************************************************************)
(* The node store.  parent = 0 means "no parent".                          *)
(***************************************************************************)
NoNode == 0

\* the Routine is the first node of the store, the loop under test the fifth
Root == 1
TheLoop == 5

Node(kind, sym, val, dtype, children, parent) ==
    [kind |-> kind, sym |-> sym, val |-> val, dtype |-> dtype,
     children |-> children, parent |-> parent, ann |-> {}]

\* Node.position: the index of a node in its parent's children
Position(ns, id) ==
    CHOOSE k \in 1..Len(ns[ns[id].parent].children) :
        ns[ns[id].parent].children[k] = id

\* Node.replace_with: new takes old's place in old's parent, old is detached
ReplaceWith(ns, old, new) ==
    LET p == ns[old].parent
        k == Position(ns, old)
    IN  [ns EXCEPT ![p].children[k] = new,
                   ![new].parent = p,
                   ![old].parent = NoNode]

\* the children setter: the node owns the given children
SetChildren(ns, id, ch) ==
    [j \in 1..Len(ns) |->
        IF j = id THEN [ns[j] EXCEPT !.children = ch]
        ELSE IF \E k \in 1..Len(ch) : ch[k] = j
             THEN [ns[j] EXCEPT !.parent = id]
             ELSE ns[j]]

\* Node.addchild: append a child
AddChild(ns, id, c) ==
    [ns EXCEPT ![id].children = Append(@, c), ![c].parent = id]

\* Node.copy of a leaf (a Literal or a Reference): a fresh, detached node
CopyNode(n) == [n EXCEPT !.parent = NoNode, !.children = <<>>]

RECURSIVE Descendants(_, _)
\* Node.walk: the node and everything below it
Descendants(ns, id) ==
    {id} \cup UNION {Descendants(ns, ns[id].children[k]) :
                        k \in 1..Len(ns[id].children)}

(***************************************************************************)
(* The symbol table: its names, and the tags that name a symbol.           *)
(***************************************************************************)
RECURSIVE NextFree(_, _, _)
NextFree(names, root, k) ==
    IF (root \o "_" \o ToString(k)) \notin names
    THEN root \o "_" \o ToString(k)
    ELSE NextFree(names, root, k + 1)

\* SymbolTable.new_symbol_name: the root name, or the first free root_k
NewSymbolName(names, root) ==
    IF root \notin names THEN root ELSE NextFree(names, root, 1)

\* SymbolTable.symbol_from_tag: the symbol of that tag, created when absent
SymbolFromTag(st, tag) ==
    IF tag \in DOMAIN st.tags THEN st.tags[tag]
    ELSE NewSymbolName(st.names, tag)

WithTag(st, tag) ==
    IF tag \in DOMAIN st.tags THEN st
    ELSE [names |-> st.names \cup {NewSymbolName(st.names, tag)},
          tags |-> (tag :> NewSymbolName(st.names, tag)) @@ st.tags]

(***************************************************************************)
(* Access analysis (VariablesAccessInfo) of a subtree: the signatures it   *)
(* touches and those it writes.  The target of an Assignment is written,   *)
(* the variable of a Loop is read and written, every other Reference is    *)
(* read.                                                                   *)
(***************************************************************************)
AllSignatures(ns, id) ==
    {ns[d].sym : d \in {x \in Descendants(ns, id) :
                            ns[x].kind \in {"Reference", "Loop"}}}

WrittenSignatures(ns, id) ==
    {ns[ns[d].children[1]].sym :
        d \in {x \in Descendants(ns, id) : ns[x].kind = "Assignment"}}
    \cup {ns[d].sym : d \in {x \in Descendants(ns, id) : ns[x].kind = "Loop"}}

(***************************************************************************)
(* Transformation options: a dict that holds the size option of the        *)
(* transformation ('blocksize', 'tilesize') with an integer, or not.       *)
(***************************************************************************)
\* a negative size, zero and the positive sizes
BlockSizes == (-1)..MaxBlock

NoOptions == [has |-> FALSE, size |-> 0]

Options == {NoOptions} \cup {[has |-> TRUE, size |-> b] : b \in BlockSizes}

\* options.get("blocksize", 32)
BlockSizeOf(o) == IF o.has THEN o.size ELSE DefaultBlockSize

Ok == [err |-> "ok", var |-> ""]
Err(e) == [err |-> e, var |-> ""]

(***************************************************************************)
(* BlockLoopTrans.validate: the outcome of the checks, in their order.     *)
(***************************************************************************)
\* (mutant) the loop variable itself is left out of the boundary signatures
BoundsSigsWithoutLoopVariable(ns, n) ==
    AllSignatures(ns, ns[n].children[1])
    \cup AllSignatures(ns, ns[n].children[2])

\* the signatures of the bounds and the loop variable
BoundsSigs(ns, n) ==
    AllSignatures(ns, ns[n].children[1])
    \cup AllSignatures(ns, ns[n].children[2])
    \cup {ns[n].sym}

\* the boundary variables the loop body writes
WrittenBounds(ns, n) ==
    {v \in BoundsSigs(ns, n) :
        /\ v \in AllSignatures(ns, ns[n].children[4])
        /\ v \in WrittenSignatures(ns, ns[n].children[4])}

\* the dependency analysis of validate
DependencyCheck(ns, n) ==
    IF WrittenBounds(ns, n) # {}
    THEN [err |-> "boundary_written",
          var |-> CHOOSE v \in WrittenBounds(ns, n) : TRUE]
    ELSE Ok

\* (mutant) validate without the check of the 'blocked' annotation
BlockValidateNoMarker(ns, n, o) ==
    LET step == ns[ns[n].children[3]]
        block_size == BlockSizeOf(o)
    IN  IF step.kind # "Literal" THEN Err("nonconst_step")
        ELSE IF step.dtype # "integer" THEN Err("nonint_step")
        ELSE IF Abs(step.val) > Abs(block_size) THEN Err("larger_step")
        ELSE IF step.val = 0 THEN Err("zero_step")
        ELSE DependencyCheck(ns, n)

BlockValidate(ns, n, o) ==
    LET step == ns[ns[n].children[3]]
        block_size == BlockSizeOf(o)
    IN  IF step.kind # "Literal" THEN Err("nonconst_step")
        ELSE IF step.dtype # "integer" THEN Err("nonint_step")
        ELSE IF Abs(step.val) > Abs(block_size) THEN Err("larger_step")
        ELSE IF "blocked" \in ns[n].ann THEN Err("already_blocked")
        ELSE IF step.val = 0 THEN Err("zero_step")
        ELSE DependencyCheck(ns, n)

(***************************************************************************)
(* BlockLoopTrans.apply, after validate has accepted the loop.             *)
(***************************************************************************)
ElInnerTag(ns, n) == ns[n].sym \o "_el_inner"
OutVarTag(ns, n) == ns[n].sym \o "_out_var"

\* the symbol table after the two symbol_from_tag calls
BlockSymbols(st, ns, n) == WithTag(WithTag(st, ElInnerTag(ns, n)), OutVarTag(ns, n))

\* the operators of the inner loop's end: MIN(out + B, stop) or MAX(out - B, stop)
InnerEndOps(step) ==
    IF step > 0 THEN <<"ADD", "MIN">> ELSE <<"SUB", "MAX">>

\* (mutant) the outer loop keeps the step of the original loop
OuterStepAsStep(step, block_size) == step

\* the step of the outer loop: block_size, negated for a negative step
OuterStep(step, block_size) ==
    IF step > 0 THEN block_size ELSE -block_size

\* (mutant) the assignment is given to the Schedule twice
OuterBodyTwice(inner_loop_end) == <<inner_loop_end, inner_loop_end>>

\* the children of the Schedule of the outer loop, as apply creates it
OuterBody(inner_loop_end) == <<inner_loop_end>>

BlockApplyTree(ns, st, n, o) ==
    LET b == Len(ns)
        block_size == BlockSizeOf(o)
        start == ns[n].children[1]
        stop == ns[n].children[2]
        stepv == ns[ns[n].children[3]].val
        st2 == BlockSymbols(st, ns, n)
        el == SymbolFromTag(st2, ElInnerTag(ns, n))
        out == SymbolFromTag(st2, OutVarTag(ns, n))
        ops == InnerEndOps(stepv)
        \* the nodes apply creates, in the order it creates them
        created == <<
            Node("Reference", out, 0, "integer", <<>>, b + 3),
            Node("Literal", "", block_size, "integer", <<>>, b + 3),
            Node("BinaryOperation", ops[1], 0, "", <<b + 1, b + 2>>, b + 5),
            [CopyNode(ns[stop]) EXCEPT !.parent = b + 5],
            Node("BinaryOperation", ops[2], 0, "", <<b + 3, b + 4>>, b + 7),
            Node("Reference", el, 0, "integer", <<>>, b + 7),
            Node("Assignment", "", 0, "", <<b + 6, b + 5>>, NoNode),
            Node("Reference", out, 0, "integer", <<>>, NoNode),
            Node("Reference", el, 0, "integer", <<>>, NoNode),
            Node("Loop", out, 0, "", <<>>, NoNode),
            Node("Literal", "", OuterStep(stepv, block_size), "integer",
                 <<>>, NoNode),
            Node("Schedule", "", 0, "", <<>>, NoNode) >>
        inner_loop_end == b + 7
        outerloop == b + 10
        body == b + 12
        n0 == ns \o created
        \* start.replace_with(Reference(outer_loop_variable))
        n1 == ReplaceWith(n0, start, b + 8)
        \* stop.replace_with(Reference(end_inner_loop))
        n2 == ReplaceWith(n1, stop, b + 9)
        \* Schedule(parent=outerloop, children=[inner_loop_end])
        n3 == SetChildren(n2, body, OuterBody(inner_loop_end))
        \* outerloop.children = [start, stop, Literal, Schedule]
        n4 == SetChildren(n3, outerloop, <<start, stop, b + 11, body>>)
        \* the 'blocked' annotation on both loops
        n5 == [n4 EXCEPT ![outerloop].ann = @ \cup {"blocked"},
                         ![n].ann = @ \cup {"blocked"}]
        \* node.replace_with(outerloop)
        n6 == ReplaceWith(n5, n, outerloop)
        \* outerloop.children[3].addchild(node)
        n7 == AddChild(n6, body, n)
    IN  [nodes |-> n7, symtab |-> st2]

(***************************************************************************)
(* Execution of the tree (the Fortran it stands for).  A state of the      *)
(* execution is [env, trace]: the values of the variables, and the         *)
(* sequence of <<loop variable, value>> of every loop iteration executed.  *)
(***************************************************************************)
RECURSIVE Eval(_, _, _)
Eval(ns, id, e) ==
    LET n == ns[id]
    IN  CASE n.kind = "Literal" -> n.val
          [] n.kind = "Reference" -> e[n.sym]
          [] n.kind = "BinaryOperation" ->
                LET x == Eval(ns, n.children[1], e)
                    y == Eval(ns, n.children[2], e)
                IN  CASE n.sym = "ADD" -> x + y
                      [] n.sym = "SUB" -> x - y
                      [] n.sym = "MIN" -> Min2(x, y)
                      [] n.sym = "MAX" -> Max2(x, y)

\* the iteration count of 'do v = m1, m2, m3': MAX(INT((m2 - m1 + m3) / m3), 0)
TripCount(m1, m2, m3) ==
    IF m3 > 0 THEN Max2((m2 - m1 + m3) \div m3, 0)
    ELSE IF m3 < 0 THEN Max2((m1 - m2 - m3) \div (-m3), 0)
    ELSE 0

RECURSIVE Exec(_, _, _), ExecSeq(_, _, _, _), ExecLoop(_, _, _, _, _, _)
\* the statements ch[k..] in order
ExecSeq(ns, ch, k, s) ==
    IF k > Len(ch) THEN s
    ELSE ExecSeq(ns, ch, k + 1, Exec(ns, ch[k], s))

\* the remaining iterations of a loop, its variable holding v in the first
ExecLoop(ns, id, v, left, step, s) ==
    IF left = 0 THEN s
    ELSE LET s1 == [env |-> (ns[id].sym :> v) @@ s.env,
                    trace |-> Append(s.trace, <<ns[id].sym, v>>)]
         IN  ExecLoop(ns, id, v + step, left - 1, step,
                      Exec(ns, ns[id].children[4], s1))

Exec(ns, id, s) ==
    LET n == ns[id]
    IN  CASE n.kind \in {"Routine", "Schedule"} -> ExecSeq(ns, n.children, 1, s)
          [] n.kind = "Assignment" ->
                [s EXCEPT !.env = (ns[n.children[1]].sym
                                     :> Eval(ns, n.children[2], s.env)) @@ @]
          [] n.kind = "Loop" ->
                LET m1 == Eval(ns, n.children[1], s.env)
                    m2 == Eval(ns, n.children[2], s.env)
                    m3 == Eval(ns, n.children[3], s.env)
                IN  ExecLoop(ns, id, m1, TripCount(m1, m2, m3), m3, s)

\* the run of the whole routine from the initial memory
Run(ns, m) == Exec(ns, Root, [env |-> m, trace |-> <<>>])

\* the values a variable takes as a loop variable, in execution order
ValuesOf(trace, v) ==
    LET sel == SelectSeq(trace, LAMBDA p : p[1] = v)
    IN  [k \in 1..Len(sel) |-> sel[k][2]]

\* the sequence a, a+1, ..., b
Range(a, b) == [k \in 1..(b - a + 1) |-> a + k - 1]

Loops(ns) == {x \in 1..Len(ns) : ns[x].kind = "Loop"}

Call(op, n, o, res) ==
    [op |-> op, target |-> n, has |-> o.has, size |-> o.size,
     err |-> res.err, var |-> res.var]

\* (mutant) validate marks the loop it has looked at
ValidateMarking(n, o) ==
    /\ last' = Call("validate", n, o, BlockValidate(nodes, n, o))
    /\ nodes' = [nodes EXCEPT ![n].ann = @ \cup {"blocked"}]
    /\ UNCHANGED <<symtab, mem, kern, lowerVars>>

\* trans.validate(loop, options)
Validate(n, o) ==
    /\ last' = Call("validate", n, o, BlockValidate(nodes, n, o))
    /\ UNCHANGED <<nodes, symtab, mem, kern, lowerVars>>

\* trans.apply(loop, options)
Apply(n, o) ==
    LET res == BlockValidate(nodes, n, o)
    IN  /\ last' = Call("apply", n, o, res)
        /\ IF res.err = "ok"
           THEN /\ nodes' = BlockApplyTree(nodes, symtab, n, o).nodes
                /\ symtab' = BlockApplyTree(nodes, symtab, n, o).symtab
           ELSE UNCHANGED <<nodes, symtab>>
        /\ UNCHANGED <<mem, kern, lowerVars>>

(***************************************************************************)
(* LoopTiling2DTrans.validate.  It hands the tile size to ChunkLoopTrans   *)
(* under the key 'chuncksize'.                                             *)
(***************************************************************************)
\* ChunkLoopTrans.validate: the blocking checks, the size read from 'chunksize'
ChunkValidate(ns, n, key, size) ==
    BlockValidate(ns, n, IF key = "chunksize"
                         THEN [has |-> TRUE, size |-> size]
                         ELSE NoOptions)

\* (mutant) validate that looks at the first statement of the body only
TilingValidateFirstChild(ns, n, o) ==
    LET tilesize == BlockSizeOf(o)
        body == ns[ns[n].children[4]].children
    IN  IF Len(body) = 0 THEN Err("tiling_body_count")
        ELSE IF ns[body[1]].kind # "Loop" THEN Err("tiling_body_kind")
        ELSE IF ChunkValidate(ns, n, "chuncksize", tilesize).err # "ok"
             THEN ChunkValidate(ns, n, "chuncksize", tilesize)
        ELSE ChunkValidate(ns, body[1], "chuncksize", tilesize)

TilingValidateResult(ns, n, o) ==
    LET tilesize == BlockSizeOf(o)
        body == ns[ns[n].children[4]].children
    IN  IF Len(body) # 1 THEN Err("tiling_body_count")
        ELSE IF ns[body[1]].kind # "Loop" THEN Err("tiling_body_kind")
        ELSE IF ChunkValidate(ns, n, "chuncksize", tilesize).err # "ok"
             THEN ChunkValidate(ns, n, "chuncksize", tilesize)
        ELSE ChunkValidate(ns, body[1], "chuncksize", tilesize)

\* the text given to the TransformationError that validate raises
ErrorMessage(e) ==
    CASE e = "tiling_body_count" -> ""
      [] e = "tiling_body_kind" -> ""
      [] e = "nonconst_step" ->
            "Cannot apply a BlockLoopTrans to a loop with a non-constant step size."
      [] e = "nonint_step" ->
            "Cannot apply a BlockLoopTrans to a loop with a non-integer step size."
      [] e = "larger_step" ->
            "Cannot apply a BlockLoopTrans to a loop with larger step size than the chosen block size."
      [] e = "already_blocked" ->
            "Cannot apply a BlockLoopTrans to an already blocked loop."
      [] e = "zero_step" ->
            "Cannot apply a BlockLoopTrans to a loop with a step size of 0."
      [] e = "boundary_written" ->
            "Cannot apply a BlockedLoopTrans to this loop because the boundary variable is written to inside the loop body."
      [] OTHER -> e

\* LoopTiling2DTrans().validate(loop, {'tilesize': ...})
TilingValidate(n, o) ==
    /\ last' = Call("tiling_validate", n, o, TilingValidateResult(nodes, n, o))
    /\ UNCHANGED <<nodes, symtab, mem, kern, lowerVars>>

(***************************************************************************)
(* KernelModuleInlineTrans.validate.  The kernel is given by what validate *)
(* reads of it: whether the node is a Kern, whether get_kernel_schedule    *)
(* succeeds, the References of the kernel schedule in walk order, and the  *)
(* names of the symbol tables inside the kernel routine and of the         *)
(* container around it.                                                    *)
(***************************************************************************)
RECURSIVE FirstMissing(_, _)
\* the first reference whose lookup within the routine raises KeyError
FirstMissing(refs, table) ==
    IF refs = <<>> THEN ""
    ELSE IF Head(refs) \notin table THEN Head(refs)
    ELSE FirstMissing(Tail(refs), table)

InlineValidateResult(k) ==
    IF ~k.isKern THEN Err("not_a_kern")
    ELSE IF ~k.hasSchedule THEN Err("no_kernel_schedule")
    ELSE IF FirstMissing(k.refs, k.table) # ""
         THEN [err |-> "not_in_kernel_table",
               var |-> FirstMissing(k.refs, k.table)]
    ELSE Ok

\* KernelModuleInlineTrans().validate(kern)
InlineValidate ==
    /\ last' = Call("inline_validate", NoNode, NoOptions,
                    InlineValidateResult(kern))
    /\ UNCHANGED <<nodes, symtab, mem, kern, lowerVars>>

(***************************************************************************)
(* The routine the transformations are applied to:                         *)
(*     tmp = 0                                                             *)
(*     do i = <start>, <stop>, <step>                                      *)
(*         <body>                                                          *)
(*     enddo                                                               *)
(* where <body> is one assignment, or the loop                             *)
(*     do j = 1, <stop>, 1                                                 *)
(*         tmp = j                                                         *)
(*     enddo                                                               *)
(***************************************************************************)
Lit(v) == Node("Literal", "", v, "integer", <<>>, NoNode)
Ref(s) == Node("Reference", s, 0, "integer", <<>>, NoNode)

\* the nodes 10.. of the body, a child of the Schedule 9
AssignBody(target, value) ==
    << Node("Assignment", "", 0, "", <<11, 12>>, 9),
       [Ref(target) EXCEPT !.parent = 10],
       [Ref(value) EXCEPT !.parent = 10] >>

LoopBody(stop) ==
    << Node("Loop", "j", 0, "", <<11, 12, 13, 14>>, 9),
       [Lit(1) EXCEPT !.parent = 10],
       [stop EXCEPT !.parent = 10],
       [Lit(1) EXCEPT !.parent = 10],
       Node("Schedule", "", 0, "", <<15>>, 10),
       Node("Assignment", "", 0, "", <<16, 17>>, 14),
       [Ref("tmp") EXCEPT !.parent = 15],
       [Ref("j") EXCEPT !.parent = 15] >>

Routine(start, stop, step, body) ==
    << Node("Routine", "", 0, "", <<2, 5>>, NoNode),
       Node("Assignment", "", 0, "", <<3, 4>>, 1),
       [Ref("tmp") EXCEPT !.parent = 2],
       [Lit(0) EXCEPT !.parent = 2],
       Node("Loop", "i", 0, "", <<6, 7, 8, 9>>, 1),
       [start EXCEPT !.parent = 5],
       [stop EXCEPT !.parent = 5],
       [step EXCEPT !.parent = 5],
       Node("Schedule", "", 0, "", <<10>>, 5) >> \o body

Starts == {Lit(1), Ref("m")}
Stops(N) == {Lit(N), Ref("n")}
Steps == {Lit(s) : s \in (-MaxStep)..MaxStep}
         \cup {Node("Literal", "", 1, "real", <<>>, NoNode), Ref("st")}
Bodies ==
    {AssignBody("tmp", "i"), AssignBody("tmp", "n"), AssignBody("i", "n"),
     AssignBody("n", "i"), AssignBody("m", "i")}

VarNames == {"i", "j", "tmp", "n", "m", "st"}

Memory(N) == [v \in VarNames |->
                 IF v = "n" THEN N ELSE IF v \in {"m", "st"} THEN 1 ELSE 0]

NoCall == [op |-> "none", target |-> NoNode, has |-> FALSE, size |-> 0,
           err |-> "ok", var |-> ""]

\* a kernel with a schedule whose only reference is to a local variable
PlainKernel == [isKern |-> TRUE, hasSchedule |-> TRUE, refs |-> <<"a">>,
                table |-> {"a"}, container |-> {"g"}]

\* the routine with a loop to N, before any transformation
InitRoutine(N) ==
    /\ mem = Memory(N)
    /\ \/ \E start \in Starts, stop \in Stops(N), step \in Steps,
             body \in Bodies :
                nodes = Routine(start, stop, step, body)
       \/ nodes = Routine(Lit(1), Lit(N), Lit(1), LoopBody(Lit(N)))
    /\ symtab = [names |-> VarNames, tags |-> <<>>]
    /\ last = NoCall

\* no NEMO kernel is being lowered
NoKernel ==
    /\ given = [sched |-> <<>>, env |-> <<>>]
    /\ sched = <<>>
    /\ lsym = {}
    /\ env = <<>>
    /\ pc = 0

Init ==
    /\ \E N \in 1..MaxN : InitRoutine(N)
    /\ kern = PlainKernel
    /\ NoKernel

Next ==
    \E n \in Loops(nodes), o \in Options :
        \/ Validate(n, o)
        \/ Apply(n, o)

Spec == Init /\ [][Next]_vars

(***************************************************************************)
(* The three transformations together: the routines with a loop to MaxN    *)
(* and one kernel, or one routine and every kernel.                        *)
(***************************************************************************)
Kernels ==
    [isKern : BOOLEAN, hasSchedule : BOOLEAN,
     refs : {<<"a">>, <<"a", "g">>, <<"g", "a">>},
     table : {{"a"}, {"a", "g"}}, container : {{"g"}}]

InitV ==
    /\ NoKernel
    /\ \/ InitRoutine(MaxN) /\ kern = PlainKernel
       \/ /\ mem = Memory(MaxN)
          /\ nodes = Routine(Lit(1), Lit(MaxN), Lit(1), AssignBody("tmp", "i"))
          /\ symtab = [names |-> VarNames, tags |-> <<>>]
          /\ last = NoCall
          /\ kern \in Kernels

NextV ==
    \/ Next
    \/ \E n \in Loops(nodes), o \in Options : TilingValidate(n, o)
    \/ InlineValidate

SpecV == InitV /\ [][NextV]_vars

(***************************************************************************)
(* LoopTiling2DTrans.apply: validate, ChunkLoopTrans.apply on the outer    *)
(* and the inner loop, LoopSwapTrans.apply on the second loop of the nest. *)
(* Each of the three calls validates for itself and may raise; the result  *)
(* is the tree and the symbol table at the end of the call, and the error. *)
(***************************************************************************)
RECURSIVE WalkLoops(_, _), WalkLoopsAll(_, _, _)
\* node.walk(Loop): the loops among the node and its descendants, depth
\* first, parents first
WalkLoops(ns, id) ==
    (IF ns[id].kind = "Loop" THEN <<id>> ELSE <<>>)
    \o WalkLoopsAll(ns, ns[id].children, 1)

WalkLoopsAll(ns, ch, k) ==
    IF k > Len(ch) THEN <<>>
    ELSE WalkLoops(ns, ch[k]) \o WalkLoopsAll(ns, ch, k + 1)

\* ChunkLoopTrans().apply(loop, options={key: size})
ChunkApply(ns, st, n, key, size) ==
    LET o == IF key = "chunksize" THEN [has |-> TRUE, size |-> size]
             ELSE NoOptions
        res == ChunkValidate(ns, n, key, size)
        out == BlockApplyTree(ns, st, n, o)
    IN  IF res.err = "ok"
        THEN [nodes |-> out.nodes, symtab |-> out.symtab, res |-> res]
        ELSE [nodes |-> ns, symtab |-> st, res |-> res]

\* LoopSwapTrans.validate: the loop has exactly one statement, a loop, whose
\* bounds and step do not read the variable of the loop
SwapValidate(ns, n) ==
    LET body == ns[ns[n].children[4]].children
    IN  IF Len(body) # 1 THEN Err("swap_body_count")
        ELSE IF ns[body[1]].kind # "Loop" THEN Err("swap_body_kind")
        ELSE IF ns[n].sym \in
                   (AllSignatures(ns, ns[body[1]].children[1])
                    \cup AllSignatures(ns, ns[body[1]].children[2])
                    \cup AllSignatures(ns, ns[body[1]].children[3]))
             THEN [err |-> "swap_dependency", var |-> ns[n].sym]
        ELSE Ok

\* LoopSwapTrans.apply on an accepted loop: the inner loop takes the place
\* of the loop, the loop becomes the body of the inner loop and the body of
\* the inner loop becomes the body of the loop
SwapTree(ns, n) ==
    LET so == ns[n].children[4]
        inner == ns[so].children[1]
        si == ns[inner].children[4]
        n1 == ReplaceWith(ns, n, inner)
    IN  [n1 EXCEPT ![n].children[4] = si,
                   ![si].parent = n,
                   ![inner].children[4] = so,
                   ![so].parent = inner,
                   ![so].children = <<n>>,
                   ![n].parent = so]

\* LoopSwapTrans().apply(loop)
SwapApply(ns, n) ==
    IF SwapValidate(ns, n).err = "ok"
    THEN [nodes |-> SwapTree(ns, n), res |-> Ok]
    ELSE [nodes |-> ns, res |-> SwapValidate(ns, n)]

\* the outcome of apply once a call has raised or the last has returned
TilingOutcome(n, o, ns, st, res) ==
    /\ last' = Call("tiling_apply", n, o, res)
    /\ nodes' = ns
    /\ symtab' = st
    /\ UNCHANGED <<mem, kern, lowerVars>>

\* (mutant) apply without the swap of the loops
TilingApplyNoSwap(n, o) ==
    LET res == TilingValidateResult(nodes, n, o)
        tilesize == BlockSizeOf(o)
    IN  IF res.err # "ok" THEN TilingOutcome(n, o, nodes, symtab, res)
        ELSE
        \E c1 \in {ChunkApply(nodes, symtab, n, "chuncksize", tilesize)} :
           IF c1.res.err # "ok"
           THEN TilingOutcome(n, o, c1.nodes, c1.symtab, c1.res)
           ELSE
           \E c2 \in {ChunkApply(c1.nodes, c1.symtab,
                                 nodes[nodes[n].children[4]].children[1],
                                 "chuncksize", tilesize)} :
              TilingOutcome(n, o, c2.nodes, c2.symtab, c2.res)

\* LoopTiling2DTrans().apply(loop, {'tilesize': ...})
TilingApply(n, o) ==
    LET res == TilingValidateResult(nodes, n, o)
        tilesize == BlockSizeOf(o)
        parent == nodes[n].parent
        position == Position(nodes, n)
        outer_loop == n
        inner_loop == nodes[nodes[n].children[4]].children[1]
    IN  \* self.validate(node, options)
        IF res.err # "ok" THEN TilingOutcome(n, o, nodes, symtab, res)
        ELSE
        \* ChunkLoopTrans().apply(outer_loop, options={'chuncksize': tilesize})
        \E c1 \in {ChunkApply(nodes, symtab, outer_loop, "chuncksize",
                              tilesize)} :
           IF c1.res.err # "ok"
           THEN TilingOutcome(n, o, c1.nodes, c1.symtab, c1.res)
           ELSE
           \* ChunkLoopTrans().apply(inner_loop, options={'chuncksize': tilesize})
           \E c2 \in {ChunkApply(c1.nodes, c1.symtab, inner_loop,
                                 "chuncksize", tilesize)} :
              IF c2.res.err # "ok"
              THEN TilingOutcome(n, o, c2.nodes, c2.symtab, c2.res)
              ELSE
              \* loops = parent[position].walk(Loop)[1]
              \E loops \in {WalkLoops(c2.nodes,
                                      c2.nodes[parent].children[position])[2]} :
                 \* LoopSwapTrans().apply(loops)
                 \E sw \in {SwapApply(c2.nodes, loops)} :
                    TilingOutcome(n, o, sw.nodes, c2.symtab, sw.res)

(***************************************************************************)
(* The routines given to the tiling: the body of the loop over i is        *)
(*     do j = 1, <stop>, <step>                                            *)
(*         tmp = j                                                         *)
(*     enddo                                                               *)
(* alone or followed by another statement, or one assignment, or nothing.  *)
(***************************************************************************)
\* the nest with the stop and the step of the inner loop
Nest(N, step, jstop, jstep) ==
    [Routine(Lit(1), Lit(N), step, LoopBody(jstop))
        EXCEPT ![13] = [jstep EXCEPT !.parent = 10]]

\* the nest with a second statement, n = i, after the inner loop
NestAndStatement(N) ==
    [Routine(Lit(1), Lit(N), Lit(1), LoopBody(Lit(N)))
        EXCEPT ![9].children = <<10, 18>>]
    \o << Node("Assignment", "", 0, "", <<19, 20>>, 9),
          [Ref("tmp") EXCEPT !.parent = 18],
          [Ref("i") EXCEPT !.parent = 18] >>

\* the loop with an empty body
EmptyLoop(N) ==
    [Routine(Lit(1), Lit(N), Lit(1), <<>>) EXCEPT ![9].children = <<>>]

TilingRoutines(N) ==
    {Nest(N, step, jstop, jstep) :
        step \in {Lit(1), Lit(MaxStep), Ref("st")},
        jstop \in {Lit(N), Ref("n"), Ref("i")},
        jstep \in {Lit(1), Ref("st")}}
    \cup {NestAndStatement(N), EmptyLoop(N),
          Routine(Lit(1), Lit(N), Lit(1), AssignBody("tmp", "i"))}

InitT ==
    /\ \E N \in 1..MaxN :
          /\ nodes \in TilingRoutines(N)
          /\ mem = Memory(N)
    /\ symtab = [names |-> VarNames, tags |-> <<>>]
    /\ last = NoCall
    /\ kern = PlainKernel
    /\ NoKernel

NextT ==
    \E n \in Loops(nodes), o \in Options :
        \/ TilingValidate(n, o)
        \/ TilingApply(n, o)

SpecT == InitT /\ [][NextT]_vars

(***************************************************************************)
(* The NEMO intrinsic lowerings of sir_trans_intrinsics.py.                *)
(*                                                                         *)
(* An expression is a record [k, op, name, val, args] where k is the class *)
(* of the node; a statement is an Assignment lhs = rhs or an IfBlock.      *)
(***************************************************************************)
MaxVal == 2

Vals == (-MaxVal)..MaxVal

ELit(v) == [k |-> "Literal", op |-> "", name |-> "", val |-> v, args |-> <<>>]
ERef(n) == [k |-> "Reference", op |-> "", name |-> n, val |-> 0, args |-> <<>>]
EUnary(op, x) ==
    [k |-> "UnaryOperation", op |-> op, name |-> "", val |-> 0, args |-> <<x>>]
EBinary(op, x, y) ==
    [k |-> "BinaryOperation", op |-> op, name |-> "", val |-> 0,
     args |-> <<x, y>>]
ENary(op, xs) ==
    [k |-> "NaryOperation", op |-> op, name |-> "", val |-> 0, args |-> xs]

Assign(lhs, rhs) ==
    [k |-> "Assignment", lhs |-> lhs, rhs |-> rhs, cond |-> ELit(0),
     then |-> <<>>, else |-> <<>>]
IfBlock(cond, then, else) ==
    [k |-> "IfBlock", lhs |-> "", rhs |-> ELit(0), cond |-> cond,
     then |-> then, else |-> else]

IsOperation(e) ==
    e.k \in {"UnaryOperation", "BinaryOperation", "NaryOperation"}

RECURSIVE SubExpr(_, _), ReplaceExpr(_, _, _), OpPaths(_)
\* the node reached from e by the child positions of path
SubExpr(e, path) ==
    IF path = <<>> THEN e ELSE SubExpr(e.args[Head(path)], Tail(path))

\* oper_parent.children[node.position] = new
ReplaceExpr(e, path, new) ==
    IF path = <<>> THEN new
    ELSE [e EXCEPT !.args[Head(path)] = ReplaceExpr(@, Tail(path), new)]

\* walk(Operation): the paths of the operations of an expression
OpPaths(e) ==
    (IF IsOperation(e) THEN {<<>>} ELSE {})
    \cup UNION {{<<j>> \o q : q \in OpPaths(e.args[j])} :
                   j \in 1..Len(e.args)}

\* children.insert(position, stmt)
InsertAt(stmts, pos, stmt) ==
    [j \in 1..(Len(stmts) + 1) |->
        IF j < pos THEN stmts[j]
        ELSE IF j = pos THEN stmt
        ELSE stmts[j - 1]]

(***************************************************************************)
(* Execution of the kernel statements.  Comparisons evaluate to 1 or 0.    *)
(***************************************************************************)
\* the least element of a non-empty sequence of values
MinOf(xs) ==
    CHOOSE m \in {xs[j] : j \in 1..Len(xs)} :
        \A j \in 1..Len(xs) : m <= xs[j]

RECURSIVE EvalX(_, _)
EvalX(e, v) ==
    LET x == [j \in 1..Len(e.args) |-> EvalX(e.args[j], v)]
    IN  CASE e.k = "Literal" -> e.val
          [] e.k = "Reference" -> v[e.name]
          [] e.op = "ABS" -> Abs(x[1])
          [] e.op = "SIGN" -> IF x[2] >= 0 THEN Abs(x[1]) ELSE -Abs(x[1])
          [] e.op = "MIN" -> MinOf(x)
          [] e.op = "MUL" -> x[1] * x[2]
          [] e.op = "ADD" -> x[1] + x[2]
          [] e.op = "GT" -> IF x[1] > x[2] THEN 1 ELSE 0
          [] e.op = "LT" -> IF x[1] < x[2] THEN 1 ELSE 0

RECURSIVE ExecStmt(_, _), ExecStmts(_, _, _)
ExecStmts(stmts, j, v) ==
    IF j > Len(stmts) THEN v
    ELSE ExecStmts(stmts, j + 1, ExecStmt(stmts[j], v))

ExecStmt(st, v) ==
    IF st.k = "Assignment" THEN (st.lhs :> EvalX(st.rhs, v)) @@ v
    ELSE IF EvalX(st.cond, v) = 1 THEN ExecStmts(st.then, 1, v)
    ELSE ExecStmts(st.else, 1, v)

(***************************************************************************)
(* NemoOperatorTrans.validate: the node is of the class and the operator   *)
(* of the transformation.  The symbol table is a SymbolTable, the api is   *)
(* nemo and the node lies in an assignment in every call made here.        *)
(***************************************************************************)
LowerValidate(node, class, operator) ==
    IF node.k # class \/ node.op # operator THEN Err("not_the_operator")
    ELSE Ok

(***************************************************************************)
(* NemoAbsTrans.apply on the node at path in the rhs of statement a.       *)
(* The result is the new statements, symbol names and the new position of  *)
(* the assignment.                                                         *)
(***************************************************************************)
\* (mutant) the condition of the docstring, with the branches of the code
AbsIfBlockLess(res, tmp) ==
    IfBlock(EBinary("LT", ERef(tmp), ELit(0)),
            <<Assign(res, ERef(tmp))>>,
            <<Assign(res, EBinary("MUL", ERef(tmp), ELit(-1)))>>)

\* IF (tmp > 0.0) res = tmp ELSE res = tmp * -1.0
AbsIfBlock(res, tmp) ==
    IfBlock(EBinary("GT", ERef(tmp), ELit(0)),
            <<Assign(res, ERef(tmp))>>,
            <<Assign(res, EBinary("MUL", ERef(tmp), ELit(-1)))>>)

\* (mutant) the IfBlock is inserted before the copy of the operand
AbsApplyBranchFirst(stmts, syms, a, path) ==
    LET node == SubExpr(stmts[a].rhs, path)
        res_var == NewSymbolName(syms, "res_abs")
        syms1 == syms \cup {res_var}
        tmp_var == NewSymbolName(syms1, "tmp_abs")
        s1 == [stmts EXCEPT ![a].rhs = ReplaceExpr(@, path, ERef(res_var))]
        s2 == InsertAt(s1, a, AbsIfBlock(res_var, tmp_var))
        s3 == InsertAt(s2, a + 1, Assign(tmp_var, node.args[1]))
    IN  [sched |-> s3, syms |-> syms1 \cup {tmp_var}, pos |-> a + 2]

AbsApply(stmts, syms, a, path) ==
    LET node == SubExpr(stmts[a].rhs, path)
        res_var == NewSymbolName(syms, "res_abs")
        syms1 == syms \cup {res_var}
        tmp_var == NewSymbolName(syms1, "tmp_abs")
        s1 == [stmts EXCEPT ![a].rhs = ReplaceExpr(@, path, ERef(res_var))]
        s2 == InsertAt(s1, a, Assign(tmp_var, node.args[1]))
        s3 == InsertAt(s2, a + 1, AbsIfBlock(res_var, tmp_var))
    IN  [sched |-> s3, syms |-> syms1 \cup {tmp_var}, pos |-> a + 2]

(***************************************************************************)
(* NemoSignTrans.apply.                                                    *)
(***************************************************************************)
\* IF (tmp < 0.0) res = res * -1.0
SignIfBlock(res, tmp) ==
    IfBlock(EBinary("LT", ERef(tmp), ELit(0)),
            <<Assign(res, EBinary("MUL", ERef(res), ELit(-1)))>>,
            <<>>)

SignApply(stmts, syms, a, path) ==
    LET node == SubExpr(stmts[a].rhs, path)
        res_var == NewSymbolName(syms, "res_sign")
        syms1 == syms \cup {res_var}
        tmp_var == NewSymbolName(syms1, "tmp_sign")
        syms2 == syms1 \cup {tmp_var}
        s1 == [stmts EXCEPT ![a].rhs = ReplaceExpr(@, path, ERef(res_var))]
        \* res_var = ABS(B), B the second argument
        s2 == InsertAt(s1, a, Assign(res_var, EUnary("ABS", node.args[2])))
        \* abs_trans.apply(rhs, symbol_table)
        ab == AbsApply(s2, syms2, a, <<>>)
        \* tmp_var = A, A the first argument
        s3 == InsertAt(ab.sched, ab.pos + 1, Assign(tmp_var, node.args[1]))
        s4 == InsertAt(s3, ab.pos + 2, SignIfBlock(res_var, tmp_var))
    IN  [sched |-> s4, syms |-> ab.syms, pos |-> ab.pos + 3]

(***************************************************************************)
(* NemoMinTrans.apply.                                                     *)
(***************************************************************************)
\* (mutant) the comparison turned round
MinIfBlockGreater(res, tmp) ==
    IfBlock(EBinary("GT", ERef(tmp), ERef(res)),
            <<Assign(res, ERef(tmp))>>, <<>>)

\* IF (tmp < res) res = tmp
MinIfBlock(res, tmp) ==
    IfBlock(EBinary("LT", ERef(tmp), ERef(res)),
            <<Assign(res, ERef(tmp))>>, <<>>)

RECURSIVE MinRestRootName(_, _, _, _, _, _)
\* (mutant) every temporary takes the root name tmp_min
MinRestRootName(stmts, syms, pos, res, args, j) ==
    IF j > Len(args) THEN [sched |-> stmts, syms |-> syms, pos |-> pos]
    ELSE LET tmp_var == "tmp_min"
             s1 == InsertAt(stmts, pos, Assign(tmp_var, args[j]))
             s2 == InsertAt(s1, pos + 1, MinIfBlock(res, tmp_var))
         IN  MinRestRootName(s2, syms \cup {tmp_var}, pos + 2, res, args,
                             j + 1)

RECURSIVE MinRest(_, _, _, _, _, _)
\* the loop over the arguments args[j..]: tmp = arg; IF (tmp < res) res = tmp
MinRest(stmts, syms, pos, res, args, j) ==
    IF j > Len(args) THEN [sched |-> stmts, syms |-> syms, pos |-> pos]
    ELSE LET tmp_var == NewSymbolName(syms, "tmp_min")
             s1 == InsertAt(stmts, pos, Assign(tmp_var, args[j]))
             s2 == InsertAt(s1, pos + 1, MinIfBlock(res, tmp_var))
         IN  MinRest(s2, syms \cup {tmp_var}, pos + 2, res, args, j + 1)

MinApply(stmts, syms, a, path) ==
    LET node == SubExpr(stmts[a].rhs, path)
        res_var == NewSymbolName(syms, "res_min")
        s1 == [stmts EXCEPT ![a].rhs = ReplaceExpr(@, path, ERef(res_var))]
        s2 == InsertAt(s1, a, Assign(res_var, node.args[1]))
    IN  MinRest(s2, syms \cup {res_var}, a + 1, res_var, node.args, 2)

(***************************************************************************)
(* The calls of the script on the top-level assignments of the schedule,   *)
(* and the execution of the schedule, one statement at a time.             *)
(***************************************************************************)
\* the operations in the assignments of the schedule: <<statement, path>>
Operations(stmts) ==
    UNION {{<<a, q>> : q \in OpPaths(stmts[a].rhs)} :
              a \in {j \in 1..Len(stmts) : stmts[j].k = "Assignment"}}

Lower(name, class, operator, a, path, out) ==
    LET res == LowerValidate(SubExpr(sched[a].rhs, path), class, operator)
    IN  /\ pc = 0
        /\ last' = Call(name, NoNode, NoOptions, res)
        /\ IF res.err = "ok"
           THEN sched' = out.sched /\ lsym' = out.syms
           ELSE UNCHANGED <<sched, lsym>>
        /\ UNCHANGED <<nodes, symtab, mem, kern, given, env, pc>>

\* abs_trans.apply(oper, symbol_table)
AbsTrans(a, path) ==
    Lower("abs_apply", "UnaryOperation", "ABS", a, path,
          AbsApply(sched, lsym, a, path))

\* sign_trans.apply(oper, symbol_table)
SignTrans(a, path) ==
    Lower("sign_apply", "BinaryOperation", "SIGN", a, path,
          SignApply(sched, lsym, a, path))

\* min_trans.apply(oper, symbol_table)
MinTrans(a, path) ==
    Lower("min_apply", "NaryOperation", "MIN", a, path,
          MinApply(sched, lsym, a, path))

\* the kernel starts to execute
Start ==
    /\ pc = 0
    /\ pc' = 1
    /\ UNCHANGED <<nodes, symtab, mem, kern, last, given, sched, lsym, env>>

\* the next statement of the schedule executes
Step ==
    /\ pc \in 1..Len(sched)
    /\ env' = ExecStmt(sched[pc], env)
    /\ pc' = pc + 1
    /\ UNCHANGED <<nodes, symtab, mem, kern, last, given, sched, lsym>>

(***************************************************************************)
(* The kernel                                                              *)
(*     p = a                                                               *)
(*     r = <intrinsic>  or  r = <intrinsic> + c                            *)
(*     q = r                                                               *)
(* with the intrinsic ABS(a), SIGN(a, b), MIN(a, b) as a binary or an      *)
(* n-ary operation, or MIN(a, b, c).                                       *)
(***************************************************************************)
Intrinsics ==
    {EUnary("ABS", ERef("a")),
     EBinary("SIGN", ERef("a"), ERef("b")),
     EBinary("MIN", ERef("a"), ERef("b")),
     ENary("MIN", <<ERef("a"), ERef("b")>>),
     ENary("MIN", <<ERef("a"), ERef("b"), ERef("c")>>)}

RightHandSides ==
    Intrinsics \cup {EBinary("ADD", x, ERef("c")) : x \in Intrinsics}

Kernel(rhs) ==
    <<Assign("p", ERef("a")), Assign("r", rhs), Assign("q", ERef("r"))>>

KernelVars == {"a", "b", "c", "p", "q", "r"}

InitLower ==
    /\ \E rhs \in RightHandSides, va \in Vals, vb \in Vals, vc \in Vals :
          /\ sched = Kernel(rhs)
          /\ env = [x \in KernelVars |->
                      IF x = "a" THEN va ELSE IF x = "b" THEN vb
                      ELSE IF x = "c" THEN vc ELSE 0]
          /\ given = [sched |-> sched, env |-> env]
    /\ lsym = {}
    /\ pc = 0
    /\ last = NoCall
    /\ kern = PlainKernel
    /\ mem = Memory(1)
    /\ nodes = Routine(Lit(1), Lit(1), Lit(1), AssignBody("tmp", "i"))
    /\ symtab = [names |-> VarNames, tags |-> <<>>]

NextLower ==
    \/ \E t \in Operations(sched) :
          \/ AbsTrans(t[1], t[2])
          \/ SignTrans(t[1], t[2])
          \/ MinTrans(t[1], t[2])
    \/ Start
    \/ Step

SpecLower == InitLower /\ [][NextLower]_vars

(***************************************************************************)
(* Several lowerings that share one symbol table: the kernel               *)
(*     r = <intrinsic>                                                     *)
(*     q = <intrinsic>                                                     *)
(* and a table that may already hold names the lowerings would ask for.    *)
(***************************************************************************)
TwoIntrinsics(x, y) == <<Assign("r", x), Assign("q", y)>>

\* the names in the table before the script runs
Tables ==
    {{}, KernelVars,
     KernelVars \cup {"res_abs", "tmp_min"},
     KernelVars \cup {"tmp_abs", "tmp_abs_1", "res_sign", "res_min",
                      "res_min_1", "tmp_min_1"}}

InitNames ==
    /\ \E x \in Intrinsics, y \in Intrinsics :
          sched = TwoIntrinsics(x, y)
    /\ lsym \in Tables
    /\ env = [x \in KernelVars |-> 0]
    /\ given = [sched |-> sched, env |-> env]
    /\ pc = 0
    /\ last = NoCall
    /\ kern = PlainKernel
    /\ mem = Memory(1)
    /\ nodes = Routine(Lit(1), Lit(1), Lit(1), AssignBody("tmp", "i"))
    /\ symtab = [names |-> VarNames, tags |-> <<>>]

NextNames ==
    \E t \in Operations(sched) :
       \/ AbsTrans(t[1], t[2])
       \/ SignTrans(t[1], t[2])
       \/ MinTrans(t[1], t[2])

SpecNames == InitNames /\ [][NextNames]_vars

(***************************************************************************)
(* The children list of a node (ChildrenList).  Every operation that       *)
(* changes the list checks each item of the resulting list against the     *)
(* child contract of the kind of the node, at the position the item gets,  *)
(* and changes nothing when an item fails.                                 *)
(***************************************************************************)
DataKinds == {"Literal", "Reference", "BinaryOperation"}
StatementKinds == {"Assignment", "Loop", "Return"}

\* (mutant) the contract without the positions
ValidChildAnyPosition(kind, position, child) ==
    CASE kind = "Assignment" -> child \in DataKinds
      [] kind = "Loop" -> child \in DataKinds \cup {"Schedule"}
      [] kind \in {"Schedule", "Routine"} -> child \in StatementKinds
      [] OTHER -> FALSE

\* _validate_child(position, child) of the kind; positions count from 0
ValidChild(kind, position, child) ==
    CASE kind = "Assignment" -> position < 2 /\ child \in DataKinds
      [] kind = "Loop" -> \/ position \in 0..2 /\ child \in DataKinds
                          \/ position = 3 /\ child = "Schedule"
      [] kind \in {"Schedule", "Routine"} -> child \in StatementKinds
      [] OTHER -> FALSE

\* the first position whose item breaks the contract, -1 when none does
FirstInvalid(ns, id, list) ==
    LET bad == {k \in 1..Len(list) :
                   ~ValidChild(ns[id].kind, k - 1, ns[list[k]].kind)}
    IN  IF bad = {} THEN -1
        ELSE (CHOOSE k \in bad : \A j \in bad : k <= j) - 1

ItemsOf(list) == {list[k] : k \in 1..Len(list)}

\* the list is committed: the items that left it lose their parent, the
\* items that are in it have the node as parent
Commit(ns, id, list) ==
    [j \in 1..Len(ns) |->
        IF j = id THEN [ns[j] EXCEPT !.children = list]
        ELSE IF j \in ItemsOf(list) THEN [ns[j] EXCEPT !.parent = id]
        ELSE IF j \in ItemsOf(ns[id].children)
             THEN [ns[j] EXCEPT !.parent = NoNode]
        ELSE ns[j]]

\* (mutant) the list is committed before the check raises
ChildrenUpdateThenRaise(ns, id, list) ==
    IF FirstInvalid(ns, id, list) = -1
    THEN [nodes |-> Commit(ns, id, list), err |-> "ok"]
    ELSE [nodes |-> Commit(ns, id, list), err |-> "invalid_child"]

\* check, then commit or raise GenerationError
ChildrenUpdate(ns, id, list) ==
    IF FirstInvalid(ns, id, list) = -1
    THEN [nodes |-> Commit(ns, id, list), err |-> "ok"]
    ELSE [nodes |-> ns, err |-> "invalid_child"]

\* the resulting lists of the operations; indices count from 0
Inserted(list, index, item) == InsertAt(list, index + 1, item)
Deleted(list, index) ==
    [k \in 1..(Len(list) - 1) |-> IF k <= index THEN list[k] ELSE list[k + 1]]
Replaced(list, index, item) == [list EXCEPT ![index + 1] = item]
Reversed(list) == [k \in 1..Len(list) |-> list[Len(list) + 1 - k]]
IndexOf(list, item) == (CHOOSE k \in 1..Len(list) : list[k] = item) - 1

\* a call on the children of node id that asks for the list new
ListCall(op, id, new) ==
    LET out == ChildrenUpdate(nodes, id, new)
    IN  /\ nodes' = out.nodes
        /\ last' = [op |-> op, target |-> id, has |-> FALSE, size |-> 0,
                    err |-> out.err, var |-> ""]
        /\ UNCHANGED <<symtab, mem, kern, lowerVars>>

\* the nodes without a parent that may be given as new children
Orphans(ns) == {x \in 2..Len(ns) : ns[x].parent = NoNode}

\* node.addchild(item) and node.addchild(item, index)
ListAddChild(id, index, item) ==
    ListCall("addchild", id,
             IF index = -1 THEN Append(nodes[id].children, item)
             ELSE Inserted(nodes[id].children, index, item))

\* node.children.append(item)
ListAppend(id, item) ==
    ListCall("append", id, Append(nodes[id].children, item))

\* node.children.insert(index, item)
ListInsert(id, index, item) ==
    ListCall("insert", id, Inserted(nodes[id].children, index, item))

\* node.children.extend(items)
ListExtend(id, items) ==
    ListCall("extend", id, nodes[id].children \o items)

\* node.children[index] = item
ListSetItem(id, index, item) ==
    ListCall("setitem", id, Replaced(nodes[id].children, index, item))

\* node.children = node.children + [item]
ListAssign(id, item) ==
    ListCall("assign", id, nodes[id].children \o <<item>>)

\* node.children.remove(item)
ListRemove(id, item) ==
    ListCall("remove", id,
             Deleted(nodes[id].children, IndexOf(nodes[id].children, item)))

\* del node.children[index]
ListDel(id, index) ==
    ListCall("del", id, Deleted(nodes[id].children, index))

\* node.children.pop(index), node.children.pop()
ListPop(id, index) ==
    ListCall("pop", id, Deleted(nodes[id].children, index))

\* node.children.reverse()
ListReverse(id) ==
    ListCall("reverse", id, Reversed(nodes[id].children))

(***************************************************************************)
(* Node.ancestor(my_type, excluding, include_self): the first node, going  *)
(* up from the parent (or from the node itself), that is an instance of    *)
(* my_type and not an instance of an excluded type.                        *)
(***************************************************************************)
NodeTypes == {"Node", "Schedule", "Loop", "Assignment", "Routine"}

\* isinstance(node, type): every node is a Node, a Routine is a Schedule
IsInstance(kind, type) ==
    \/ type = "Node"
    \/ kind = type
    \/ kind = "Routine" /\ type = "Schedule"

RECURSIVE AncestorFromStopping(_, _, _, _)
\* (mutant) the walk gives up at the first node of an excluded type
AncestorFromStopping(ns, id, type, excluding) ==
    IF id = NoNode THEN NoNode
    ELSE IF \E x \in excluding : IsInstance(ns[id].kind, x) THEN NoNode
    ELSE IF IsInstance(ns[id].kind, type) THEN id
    ELSE AncestorFromStopping(ns, ns[id].parent, type, excluding)

RECURSIVE AncestorFrom(_, _, _, _)
\* the walk upward that starts at node id (0: above the root)
AncestorFrom(ns, id, type, excluding) ==
    IF id = NoNode THEN NoNode
    ELSE IF /\ IsInstance(ns[id].kind, type)
            /\ ~\E x \in excluding : IsInstance(ns[id].kind, x)
         THEN id
    ELSE AncestorFrom(ns, ns[id].parent, type, excluding)

Ancestor(ns, id, type, excluding, include_self) ==
    AncestorFrom(ns, IF include_self THEN id ELSE ns[id].parent,
                 type, excluding)

\* node.ancestor(type, excluding=..., include_self=...)
AncestorCall(id, type, excluding, include_self) ==
    /\ last' = [op |-> "ancestor", target |-> id, has |-> include_self,
                size |-> Ancestor(nodes, id, type, excluding, include_self),
                err |-> "ok", var |-> type, excluding |-> excluding]
    /\ UNCHANGED <<nodes, symtab, mem, kern, lowerVars>>

(***************************************************************************)
(* The nodes of the children-list operations: inside a routine the loop    *)
(*     Loop.create(idx, 0, 1, 2, [Assignment.create(tmp, i)])              *)
(* or the assignment Assignment.create(tmp, i) alone, and in both cases,   *)
(* without a parent, a Return and a Literal.                               *)
(***************************************************************************)
CreatedLoop == 2

CreatedNodes ==
    << Node("Routine", "", 0, "", <<2>>, NoNode),
       Node("Loop", "idx", 0, "", <<3, 4, 5, 6>>, 1),
       [Lit(0) EXCEPT !.parent = 2],
       [Lit(1) EXCEPT !.parent = 2],
       [Lit(2) EXCEPT !.parent = 2],
       Node("Schedule", "", 0, "", <<7>>, 2),
       Node("Assignment", "", 0, "", <<8, 9>>, 6),
       [Ref("tmp") EXCEPT !.parent = 7],
       [Ref("i") EXCEPT !.parent = 7],
       Node("Return", "", 0, "", <<>>, NoNode),
       Lit(0) >>

CreatedAssignment ==
    << Node("Assignment", "", 0, "", <<2, 3>>, NoNode),
       [Ref("tmp") EXCEPT !.parent = 1],
       [Ref("i") EXCEPT !.parent = 1],
       Node("Return", "", 0, "", <<>>, NoNode),
       Lit(0) >>

\* the node whose children the operations change
Created(ns) == IF ns[1].kind = "Assignment" THEN 1 ELSE CreatedLoop

InitN ==
    /\ nodes \in {CreatedNodes, CreatedAssignment}
    /\ symtab = [names |-> VarNames, tags |-> <<>>]
    /\ mem = Memory(1)
    /\ last = NoCall
    /\ kern = PlainKernel
    /\ NoKernel

NextN ==
    \E id \in {Created(nodes)} :
       \/ \E item \in Orphans(nodes) :
             \/ \E index \in (-1)..Len(nodes[id].children) :
                   ListAddChild(id, index, item)
             \/ ListAppend(id, item)
             \/ \E index \in 0..Len(nodes[id].children) :
                   ListInsert(id, index, item)
             \/ \E index \in 0..(Len(nodes[id].children) - 1) :
                   ListSetItem(id, index, item)
             \/ ListAssign(id, item)
             \/ \E other \in Orphans(nodes) \ {item} :
                   ListExtend(id, <<item, other>>)
             \/ ListExtend(id, <<item>>)
       \/ \E item \in ItemsOf(nodes[id].children) : ListRemove(id, item)
       \/ \E index \in 0..(Len(nodes[id].children) - 1) :
             \/ ListDel(id, index)
             \/ ListPop(id, index)
       \/ ListReverse(id)

SpecN == InitN /\ [][NextN]_vars

(***************************************************************************)
(* The calls of ancestor on the nodes of a loop nest.                      *)
(***************************************************************************)
Excludings == {{}, {"Schedule"}, {"Loop"}, {"Schedule", "Loop"}}

InitA ==
    /\ nodes \in {Nest(1, Lit(1), Lit(1), Lit(1)), CreatedNodes}
    /\ symtab = [names |-> VarNames, tags |-> <<>>]
    /\ mem = Memory(1)
    /\ last = NoCall
    /\ kern = PlainKernel
    /\ NoKernel

NextA ==
    \E id \in 1..Len(nodes), type \in NodeTypes, excluding \in Excludings,
       include_self \in BOOLEAN :
          AncestorCall(id, type, excluding, include_self)

SpecA == InitA /\ [][NextA]_vars

(***************************************************************************)
(* The region transformations (RegionTrans: extract and profile).  The     *)
(* nodes given are checked one after the other: same parent as the first,  *)
(* position one after the previous; then no node below them may be of a    *)
(* kind the transformation cannot enclose.  apply puts the nodes into the  *)
(* Schedule of a new region node that takes the place of the first.        *)
(***************************************************************************)
MaxRegions == 1

RegionKinds == {"ExtractNode", "ProfileNode"}

\* the node class of the transformation
RegionNodeOf(trans) == IF trans = "extract" THEN "ExtractNode" ELSE "ProfileNode"

\* (mutant) extract regions may be enclosed again
ExcludedNodeTypesDistMemOnly(trans) ==
    IF trans = "extract" THEN {"HaloExchange", "GlobalSum"} ELSE {}

\* excluded_node_types of the transformation
ExcludedNodeTypes(trans) ==
    IF trans = "extract" THEN {"ExtractNode", "HaloExchange", "GlobalSum"}
    ELSE {}

RECURSIVE ListCheckFrom(_, _, _)
\* the loop over the children of the list, from the k-th on
ListCheckFrom(ns, list, k) ==
    IF k > Len(list) THEN Ok
    ELSE IF ns[list[k]].parent # ns[list[1]].parent
         THEN Err("not_same_parent")
    ELSE IF k > 1 /\ Position(ns, list[k - 1]) + 1 # Position(ns, list[k])
         THEN Err("not_consecutive")
    ELSE ListCheckFrom(ns, list, k + 1)

\* (mutant) the positions only have to increase
RegionValidateIncreasing(ns, list, trans, distmem) ==
    IF \E k \in 1..Len(list) : ns[list[k]].parent # ns[list[1]].parent
    THEN Err("not_same_parent")
    ELSE IF \E k \in 2..Len(list) :
               Position(ns, list[k - 1]) >= Position(ns, list[k])
         THEN Err("not_consecutive")
    ELSE IF trans = "extract" /\ distmem THEN Err("distmem_not_supported")
    ELSE IF \E k \in 1..Len(list) : \E d \in Descendants(ns, list[k]) :
               ns[d].kind \in ExcludedNodeTypes(trans)
         THEN Err("cannot_enclose")
    ELSE Ok

\* validate of the transformation on a list of nodes that have a parent
RegionValidate(ns, list, trans, distmem) ==
    IF ListCheckFrom(ns, list, 1).err # "ok" THEN ListCheckFrom(ns, list, 1)
    ELSE IF trans = "extract" /\ distmem THEN Err("distmem_not_supported")
    ELSE IF \E k \in 1..Len(list) : \E d \in Descendants(ns, list[k]) :
               ns[d].kind \in ExcludedNodeTypes(trans)
         THEN Err("cannot_enclose")
    ELSE Ok

\* (mutant) the region node is put at the end of the parent
RegionTreeAtEnd(ns, list, trans) ==
    LET b == Len(ns)
        node_parent == ns[list[1]].parent
        node_position == Position(ns, list[1])
        old == ns[node_parent].children
        rest == [k \in 1..(Len(old) - Len(list)) |->
                    IF k < node_position THEN old[k] ELSE old[k + Len(list)]]
        created == << Node(RegionNodeOf(trans), "", 0, "", <<b + 2>>,
                           node_parent),
                      Node("Schedule", "", 0, "", list, b + 1) >>
    IN  [j \in 1..(b + 2) |->
            IF j > b THEN created[j - b]
            ELSE IF j = node_parent
                 THEN [ns[j] EXCEPT !.children = Append(rest, b + 1)]
            ELSE IF j \in {list[k] : k \in 1..Len(list)}
                 THEN [ns[j] EXCEPT !.parent = b + 2]
            ELSE ns[j]]

\* the tree after apply: the nodes are detached and become the children of
\* the Schedule of the region node, which is added at the position of the
\* first of them
RegionTree(ns, list, trans) ==
    LET b == Len(ns)
        node_parent == ns[list[1]].parent
        node_position == Position(ns, list[1])
        old == ns[node_parent].children
        rest == [k \in 1..(Len(old) - Len(list)) |->
                    IF k < node_position THEN old[k] ELSE old[k + Len(list)]]
        created == << Node(RegionNodeOf(trans), "", 0, "", <<b + 2>>,
                           node_parent),
                      Node("Schedule", "", 0, "", list, b + 1) >>
    IN  [j \in 1..(b + 2) |->
            IF j > b THEN created[j - b]
            ELSE IF j = node_parent
                 THEN [ns[j] EXCEPT
                          !.children = InsertAt(rest, node_position, b + 1)]
            ELSE IF j \in {list[k] : k \in 1..Len(list)}
                 THEN [ns[j] EXCEPT !.parent = b + 2]
            ELSE ns[j]]

RegionCount(ns) == Cardinality({x \in 1..Len(ns) : ns[x].kind \in RegionKinds})

\* the record of a call of apply: the list is kept when apply has returned
RegionCall(trans, list, distmem, res) ==
    IF res.err = "ok"
    THEN [op |-> trans, target |-> list[1], has |-> distmem,
          size |-> Len(list), err |-> "ok", var |-> "", list |-> list]
    ELSE [op |-> trans, target |-> NoNode, has |-> distmem, size |-> 0,
          err |-> res.err, var |-> "", list |-> <<>>]

\* trans.apply(list)
RegionApply(trans, list, distmem) ==
    LET res == RegionValidate(nodes, list, trans, distmem)
    IN  /\ res.err # "ok" \/ RegionCount(nodes) < MaxRegions
        /\ last' = RegionCall(trans, list, distmem, res)
        /\ nodes' = IF res.err = "ok" THEN RegionTree(nodes, list, trans)
                    ELSE nodes
        /\ UNCHANGED <<symtab, mem, kern, lowerVars>>

(***************************************************************************)
(* The schedule of the region transformations:                             *)
(*     do i = 1, 1, 1                                                      *)
(*         tmp = i                                                         *)
(*     enddo                                                               *)
(*     call ...                                                            *)
(*     call ...    or a halo exchange, or a global sum                     *)
(***************************************************************************)
RegionSchedule(kind) ==
    << Node("Routine", "", 0, "", <<2, 10, 11>>, NoNode),
       Node("Loop", "i", 0, "", <<3, 4, 5, 6>>, 1),
       [Lit(1) EXCEPT !.parent = 2],
       [Lit(1) EXCEPT !.parent = 2],
       [Lit(1) EXCEPT !.parent = 2],
       Node("Schedule", "", 0, "", <<7>>, 2),
       Node("Assignment", "", 0, "", <<8, 9>>, 6),
       [Ref("tmp") EXCEPT !.parent = 7],
       [Ref("i") EXCEPT !.parent = 7],
       Node("Call", "", 0, "", <<>>, 1),
       Node(kind, "", 0, "", <<>>, 1) >>

\* the nodes that hold statements, and their statements
Parents(ns) == {x \in 1..Len(ns) : ns[x].kind \in {"Routine", "Schedule"}}

\* the lists given to apply: one, two or three children of one parent in
\* any order, and two nodes of different parents
NodeLists(ns) ==
    UNION {[1..k -> ItemsOf(ns[q].children)] :
              k \in 1..3, q \in Parents(ns)}
    \cup {<<x, y>> : x \in ItemsOf(ns[Root].children),
                     y \in UNION {ItemsOf(ns[q].children) :
                                     q \in Parents(ns) \ {Root}}}
    \cup {<<y, x>> : x \in ItemsOf(ns[Root].children),
                     y \in UNION {ItemsOf(ns[q].children) :
                                     q \in Parents(ns) \ {Root}}}

InitX ==
    /\ nodes \in {RegionSchedule(k) : k \in {"Call", "HaloExchange", "GlobalSum"}}
    /\ symtab = [names |-> VarNames, tags |-> <<>>]
    /\ mem = Memory(1)
    /\ last = NoCall
    /\ kern = PlainKernel
    /\ NoKernel

NextX ==
    \E list \in NodeLists(nodes) :
        \/ \E distmem \in BOOLEAN : RegionApply("extract", list, distmem)
        \/ RegionApply("profile", list, FALSE)

SpecX == InitX /\ [][NextX]_vars

RECURSIVE WalkSeq(_, _), WalkAll(_, _, _)
\* Node.walk: the node and everything below it, parents first
WalkSeq(ns, id) == <<id>> \o WalkAll(ns, ns[id].children, 1)

WalkAll(ns, ch, j) ==
    IF j > Len(ch) THEN <<>>
    ELSE WalkSeq(ns, ch[j]) \o WalkAll(ns, ch, j + 1)

(***************************************************************************)
(* Profiling.  A ProfileNode takes the name of its variable from the       *)
(* symbol table when it is created; the name of its region is made when    *)
(* code is first generated for it and is kept.  The node holds the         *)
(* variable in sym and the region name in dtype ("" while it has none).    *)
(* In this part of the model lsym holds the region names in use, sched the *)
(* text generated last, given the text generated before it and pc the      *)
(* number of generations since the schedule was changed.                   *)
(***************************************************************************)
MaxProfiles == 2
MaxGen == 2

KernelNames == {"compute_cu_code", "compute_cv_code"}

ModuleOf(name) ==
    IF name = "compute_cu_code" THEN "compute_cu_mod"
    ELSE "kernel_ne_offset_mod"

\* an invoke of two kernels
ProfileSchedule(k1, k2) ==
    << Node("Routine", "invoke_0", 0, "", <<2, 3>>, NoNode),
       Node("Call", k1, 0, ModuleOf(k1), <<>>, 1),
       Node("Call", k2, 0, ModuleOf(k2), <<>>, 1) >>

ProfileNodes(ns) == {x \in 1..Len(ns) : ns[x].kind = "ProfileNode"}

\* the kernels of the region, in walk order
KernelsIn(ns, id) ==
    SelectSeq(WalkSeq(ns, id), LAMBDA x : ns[x].kind = "Call")

\* the ProfileNode made by the transformation gets its variable
ProfileTree(ns, list, var_name) ==
    LET t == RegionTree(ns, list, "profile")
    IN  [t EXCEPT ![Len(ns) + 1].sym = var_name]

\* ProfileTrans().apply(list) / Profiler.add_profile_nodes
ProfileAdd(list) ==
    LET var_name == NewSymbolName(symtab.names, "profile")
    IN  /\ RegionValidate(nodes, list, "profile", FALSE).err = "ok"
        /\ Cardinality(ProfileNodes(nodes)) < MaxProfiles
        /\ nodes' = ProfileTree(nodes, list, var_name)
        /\ symtab' = [symtab EXCEPT !.names = @ \cup {var_name}]
        /\ last' = RegionCall("profile", list, FALSE, Ok)
        /\ pc' = 0
        /\ UNCHANGED <<mem, kern, given, sched, lsym, env>>

RECURSIVE RegionNamesFresh(_, _, _, _)
\* (mutant) a region name is made at every generation
RegionNamesFresh(ns, used, walk, j) ==
    IF j > Len(walk) THEN [nodes |-> ns, used |-> used]
    ELSE IF ns[walk[j]].kind # "ProfileNode"
         THEN RegionNamesFresh(ns, used, walk, j + 1)
         ELSE LET kernels == KernelsIn(ns, walk[j])
                  region_name == NewSymbolName(used, ns[kernels[1]].sym)
              IN  RegionNamesFresh([ns EXCEPT ![walk[j]].dtype = region_name],
                                   used \cup {region_name}, walk, j + 1)

RECURSIVE RegionNames(_, _, _, _)
\* the regions without a name get one that no other region has, made from
\* the name of their first kernel
RegionNames(ns, used, walk, j) ==
    IF j > Len(walk) THEN [nodes |-> ns, used |-> used]
    ELSE IF ns[walk[j]].kind # "ProfileNode" \/ ns[walk[j]].dtype # ""
         THEN RegionNames(ns, used, walk, j + 1)
         ELSE LET kernels == KernelsIn(ns, walk[j])
                  region_name == NewSymbolName(used, ns[kernels[1]].sym)
              IN  RegionNames([ns EXCEPT ![walk[j]].dtype = region_name],
                              used \cup {region_name}, walk, j + 1)

RECURSIVE GenCode(_, _), GenAll(_, _, _)
\* gen_code: the lines generated for the node
GenCode(ns, id) ==
    LET body == GenAll(ns, ns[id].children, 1)
    IN  IF ns[id].kind = "Routine"
        THEN <<<<"subroutine", ns[id].sym>>>>
             \o [j \in 1..Len(SelectSeq(WalkSeq(ns, id),
                                LAMBDA x : ns[x].kind = "ProfileNode")) |->
                   <<"TYPE(ProfileData), save",
                     ns[SelectSeq(WalkSeq(ns, id),
                           LAMBDA x : ns[x].kind = "ProfileNode")[j]].sym>>]
             \o body \o <<<<"end subroutine", ns[id].sym>>>>
        ELSE IF ns[id].kind = "ProfileNode"
        THEN <<<<"call ProfileStart",
                 ns[KernelsIn(ns, id)[1]].dtype, ns[id].dtype, ns[id].sym>>>>
             \o body \o <<<<"call ProfileEnd", ns[id].sym>>>>
        ELSE IF ns[id].kind = "Call"
        THEN <<<<"call", ns[id].sym>>>>
        ELSE body

GenAll(ns, ch, j) ==
    IF j > Len(ch) THEN <<>>
    ELSE GenCode(ns, ch[j]) \o GenAll(ns, ch, j + 1)

GenCall(k) ==
    [op |-> "gen", target |-> Root, has |-> FALSE, size |-> k,
     err |-> "ok", var |-> ""]

\* (mutant) invoke.gen() that names the regions anew
GenFresh ==
    /\ pc < MaxGen
    /\ \E named \in {RegionNamesFresh(nodes, lsym, WalkSeq(nodes, Root), 1)} :
          /\ nodes' = named.nodes
          /\ lsym' = named.used
          /\ sched' = GenCode(named.nodes, Root)
    /\ given' = sched
    /\ pc' = pc + 1
    /\ last' = GenCall(pc + 1)
    /\ UNCHANGED <<symtab, mem, kern, env>>

\* invoke.gen()
Gen ==
    /\ pc < MaxGen
    /\ \E named \in {RegionNames(nodes, lsym, WalkSeq(nodes, Root), 1)} :
          /\ nodes' = named.nodes
          /\ lsym' = named.used
          /\ sched' = GenCode(named.nodes, Root)
    /\ given' = sched
    /\ pc' = pc + 1
    /\ last' = GenCall(pc + 1)
    /\ UNCHANGED <<symtab, mem, kern, env>>

InitP ==
    /\ \E k1 \in KernelNames, k2 \in KernelNames :
          nodes = ProfileSchedule(k1, k2)
    /\ \E names \in {{}, {"profile"}} :
          symtab = [names |-> names, tags |-> <<>>]
    /\ mem = Memory(1)
    /\ last = NoCall
    /\ kern = PlainKernel
    /\ given = <<>>
    /\ sched = <<>>
    /\ lsym = {}
    /\ env = <<>>
    /\ pc = 0

NextP ==
    \/ \E list \in NodeLists(nodes) : ProfileAdd(list)
    \/ Gen

SpecP == InitP /\ [][NextP]_vars

(***************************************************************************)
(* The trans routine of the script on one kernel: a new symbol table, then *)
(* a loop over the walk of the kernel schedule for each of ABS, SIGN, MIN  *)
(* as a BinaryOperation and MIN as an NaryOperation.  A walk is made       *)
(* before its loop starts, so the loop meets the operations the schedule   *)
(* then held, wherever the earlier calls have moved them; an operation of  *)
(* the kernel is known by the tag in its name.                             *)
(***************************************************************************)
Tagged(e, tag) == [e EXCEPT !.name = tag]

RECURSIVE PreOrder(_), PreOrderAll(_, _)
\* the walk of an expression: the node, then its children in order
PreOrder(e) == <<e>> \o PreOrderAll(e.args, 1)

PreOrderAll(args, j) ==
    IF j > Len(args) THEN <<>>
    ELSE PreOrder(args[j]) \o PreOrderAll(args, j + 1)

RECURSIVE WalkStmts(_, _)
\* the expressions of the assignments from statement j on, in walk order
WalkStmts(stmts, j) ==
    IF j > Len(stmts) THEN <<>>
    ELSE (IF stmts[j].k = "Assignment" THEN PreOrder(stmts[j].rhs) ELSE <<>>)
         \o WalkStmts(stmts, j + 1)

\* kernel_schedule.walk(class), filtered by 'oper.operator == operator'
WalkOperator(stmts, class, operator) ==
    SelectSeq(WalkStmts(stmts, 1),
              LAMBDA e : e.k = class /\ e.op = operator)

\* where the operation with the tag is now: <<statement, path>>
WhereIs(stmts, tag) ==
    CHOOSE t \in Operations(stmts) :
        SubExpr(stmts[t[1]].rhs, t[2]).name = tag

Transformed(stmts, syms, err) == [sched |-> stmts, syms |-> syms, err |-> err]

RECURSIVE AbsLoop(_, _, _, _)
\* for oper in kernel_schedule.walk(UnaryOperation): abs_trans.apply
AbsLoop(stmts, syms, opers, j) ==
    IF j > Len(opers) THEN Transformed(stmts, syms, "ok")
    ELSE LET t == WhereIs(stmts, opers[j].name)
             res == LowerValidate(opers[j], "UnaryOperation", "ABS")
             out == AbsApply(stmts, syms, t[1], t[2])
         IN  IF res.err # "ok" THEN Transformed(stmts, syms, res.err)
             ELSE AbsLoop(out.sched, out.syms, opers, j + 1)

RECURSIVE SignLoop(_, _, _, _)
\* for oper in kernel_schedule.walk(BinaryOperation): sign_trans.apply
SignLoop(stmts, syms, opers, j) ==
    IF j > Len(opers) THEN Transformed(stmts, syms, "ok")
    ELSE LET t == WhereIs(stmts, opers[j].name)
             res == LowerValidate(opers[j], "BinaryOperation", "SIGN")
             out == SignApply(stmts, syms, t[1], t[2])
         IN  IF res.err # "ok" THEN Transformed(stmts, syms, res.err)
             ELSE SignLoop(out.sched, out.syms, opers, j + 1)

RECURSIVE MinLoop(_, _, _, _)
\* for oper in kernel_schedule.walk(...): min_trans.apply, whose validate
\* accepts a MIN that is an NaryOperation
MinLoop(stmts, syms, opers, j) ==
    IF j > Len(opers) THEN Transformed(stmts, syms, "ok")
    ELSE LET t == WhereIs(stmts, opers[j].name)
             res == LowerValidate(opers[j], "NaryOperation", "MIN")
             out == MinApply(stmts, syms, t[1], t[2])
         IN  IF res.err # "ok" THEN Transformed(stmts, syms, res.err)
             ELSE MinLoop(out.sched, out.syms, opers, j + 1)

\* the body of 'for kernel in sched.walk(NemoKern)'
TransKernel(stmts) ==
    LET symbol_table == {}
        abs == AbsLoop(stmts, symbol_table,
                       WalkOperator(stmts, "UnaryOperation", "ABS"), 1)
    IN  IF abs.err # "ok" THEN abs
        ELSE LET sign == SignLoop(abs.sched, abs.syms,
                            WalkOperator(abs.sched, "BinaryOperation", "SIGN"),
                            1)
             IN  IF sign.err # "ok" THEN sign
                 ELSE LET min2 == MinLoop(sign.sched, sign.syms,
                                     WalkOperator(sign.sched,
                                                  "BinaryOperation", "MIN"), 1)
                      IN  IF min2.err # "ok" THEN min2
                          ELSE MinLoop(min2.sched, min2.syms,
                                       WalkOperator(min2.sched,
                                                    "NaryOperation", "MIN"), 1)

TransCall(res) ==
    [op |-> "trans", target |-> NoNode, has |-> FALSE, size |-> 0,
     err |-> res.err, var |-> ""]

\* trans(psy), for the one kernel of the invoke
Trans ==
    /\ pc = 0
    /\ last.op # "trans"
    /\ \E res \in {TransKernel(sched)} :
          /\ sched' = res.sched
          /\ lsym' = res.syms
          /\ last' = TransCall(res)
    /\ UNCHANGED <<nodes, symtab, mem, kern, given, env, pc>>

(***************************************************************************)
(* The kernels given to trans:                                             *)
(*     r = <expression>                                                    *)
(*     q = <expression>                                                    *)
(* with intrinsics alone, side by side and inside each other.  The tags    *)
(* start with the letter p, which differs in the two statements.           *)
(***************************************************************************)
Nested(p) ==
    LET a == ERef("a")
        b == ERef("b")
        c == ERef("c")
        abs(x, n) == Tagged(EUnary("ABS", x), p \o n)
        sign(x, y, n) == Tagged(EBinary("SIGN", x, y), p \o n)
        min(xs, n) == Tagged(ENary("MIN", xs), p \o n)
    IN  {a,
         abs(a, "1"),
         sign(a, b, "1"),
         min(<<a, b>>, "1"),
         min(<<a, b, c>>, "1"),
         abs(abs(a, "2"), "1"),
         abs(sign(a, b, "2"), "1"),
         sign(abs(a, "2"), b, "1"),
         sign(a, sign(b, c, "2"), "1"),
         min(<<abs(a, "2"), b, min(<<b, c>>, "3")>>, "1"),
         abs(min(<<a, sign(b, c, "3")>>, "2"), "1"),
         Tagged(EBinary("ADD", abs(a, "2"), abs(b, "3")), p \o "1")}

\* MIN of two arguments as the BinaryOperation it is in the PSyIR
BinaryMin(p) ==
    {Tagged(EBinary("MIN", ERef("a"), ERef("b")), p \o "1"),
     Tagged(EUnary("ABS", Tagged(EBinary("MIN", ERef("a"), ERef("b")),
                                 p \o "2")), p \o "1")}

InitTrans ==
    /\ \E x \in Nested("x") \cup BinaryMin("x"),
          y \in Nested("y") \cup BinaryMin("y") :
          sched = TwoIntrinsics(x, y)
    /\ lsym = {}
    /\ env = [x \in KernelVars |-> 0]
    /\ given = [sched |-> sched, env |-> env]
    /\ pc = 0
    /\ last = NoCall
    /\ kern = PlainKernel
    /\ mem = Memory(1)
    /\ nodes = Routine(Lit(1), Lit(1), Lit(1), AssignBody("tmp", "i"))
    /\ symtab = [names |-> VarNames, tags |-> <<>>]

NextTrans == Trans

SpecTrans == InitTrans /\ [][NextTrans]_vars

(***************************************************************************)
(* KernelModuleInlineTrans.apply.  Besides what validate reads, the kernel *)
(* is given by its name, the kind of every symbol of the symbol table of   *)
(* the kernel routine (kinds), the modules imported by the container of    *)
(* the kernel (modules), the names of the symbol table of the Container    *)
(* around the invoke (psy) and the routines below the root (root).         *)
(***************************************************************************)
RECURSIVE BringIn(_, _, _)
\* for symbol in bring_in: the module is added to the table of the kernel
\* routine unless the table holds the name, and a name that is held by
\* something else than a ContainerSymbol raises InternalError
BringIn(k, order, j) ==
    IF j > Len(order) THEN [kern |-> k, res |-> Ok]
    ELSE IF order[j] \in k.table
         THEN IF k.kinds[order[j]] # "container"
              THEN [kern |-> k,
                    res |-> [err |-> "incoherent", var |-> order[j]]]
              ELSE BringIn(k, order, j + 1)
         ELSE BringIn([k EXCEPT !.table = @ \cup {order[j]},
                                !.kinds = (order[j] :> "container") @@ @],
                      order, j + 1)

\* the orders in which a loop can meet the elements of a set
Orders(S) ==
    {f \in [1..Cardinality(S) -> S] :
        \A i, j \in 1..Cardinality(S) : i # j => f[i] # f[j]}

\* the modules to bring in: every import of the container of the kernel when
\* a symbol of the kernel is unresolved
ToBringIn(k) ==
    IF \E s \in k.table : k.kinds[s] = "unresolved" THEN k.modules ELSE {}

\* node.ancestor(Container).symbol_table.add(RoutineSymbol(name))
WithRoutineSymbol(k) == [k EXCEPT !.psy = @ \cup {k.name}]

\* node.root.addchild(inlined_code.detach())
Attached(k) == [k EXCEPT !.root = Append(@, k.name)]

\* KernelModuleInlineTrans().apply(kern)
InlineApply ==
    LET res == InlineValidateResult(kern)
    IN  /\ IF res.err # "ok"
           THEN /\ kern' = kern
                /\ last' = Call("inline_apply", NoNode, NoOptions, res)
           ELSE IF kern.name \in kern.psy
           THEN /\ kern' = kern
                /\ last' = Call("inline_apply", NoNode, NoOptions, Ok)
           ELSE \E order \in Orders(ToBringIn(kern)) :
                   \E out \in {BringIn(WithRoutineSymbol(kern), order, 1)} :
                      /\ kern' = IF out.res.err = "ok" THEN Attached(out.kern)
                                 ELSE out.kern
                      /\ last' = Call("inline_apply", NoNode, NoOptions,
                                      out.res)
        /\ UNCHANGED <<nodes, symtab, mem, lowerVars>>

\* the symbols of the kernel routine: a local variable, an unresolved one,
\* and a local symbol or a ContainerSymbol with the name of a module
KernelTables ==
    {("a" :> "local"),
     ("a" :> "unresolved"),
     ("a" :> "local") @@ ("g" :> "unresolved"),
     ("a" :> "unresolved") @@ ("m1" :> "local"),
     ("a" :> "unresolved") @@ ("m2" :> "local"),
     ("a" :> "unresolved") @@ ("m1" :> "container"),
     ("a" :> "local") @@ ("m1" :> "local")}

InlineKernels ==
    {[isKern |-> ik, hasSchedule |-> hs, refs |-> r, table |-> DOMAIN kd,
      kinds |-> kd, container |-> {"g"} \cup mods, modules |-> mods,
      name |-> "kern_code", psy |-> {}, root |-> <<"invoke_0">>] :
        ik \in BOOLEAN, hs \in BOOLEAN, r \in {<<"a">>, <<"a", "g">>},
        kd \in KernelTables, mods \in {{}, {"m1"}, {"m1", "m2"}}}

InitI ==
    /\ NoKernel
    /\ mem = Memory(1)
    /\ nodes = Routine(Lit(1), Lit(1), Lit(1), AssignBody("tmp", "i"))
    /\ symtab = [names |-> VarNames, tags |-> <<>>]
    /\ last = NoCall
    /\ kern \in InlineKernels

NextI ==
    \/ InlineValidate
    \/ InlineApply

SpecI == InitI /\ [][NextI]_vars

(***************************************************************************)
(* generate_adjoint of psyad/tl2ad.py.  In this part of the model given is *)
(* the store of PSyIR objects, an object being its index: a tree           *)
(*     [kind |-> "tree", modules, routines]                                *)
(* with the Containers below the FileContainer, each [name, table] with    *)
(* the index of its symbol table, and the names of the Routines in walk    *)
(* order; or a symbol table [kind |-> "table", names].                     *)
(***************************************************************************)
MaxTrees == 3

Trees(store) == {r \in 1..Len(store) : store[r].kind = "tree"}

RECURSIVE CopyTables(_, _, _)
\* the symbol tables of the modules from the j-th on, copied to the end of
\* the store
CopyTables(store, modules, j) ==
    IF j > Len(modules) THEN store
    ELSE CopyTables(Append(store, store[modules[j].table]), modules, j + 1)

\* tl_psyir.copy(): a new tree whose modules have new symbol tables with the
\* same symbols
TreeCopy(store, t) ==
    LET b == Len(store)
        tree == store[t]
        tables == CopyTables(store, tree.modules, 1)
        copy == [tree EXCEPT
                    !.modules = [j \in 1..Len(tree.modules) |->
                                    [tree.modules[j] EXCEPT !.table = b + j]]]
    IN  [store |-> Append(tables, copy),
         ref |-> b + Len(tree.modules) + 1]

AdjointResult(store, ref, err) == [store |-> store, ref |-> ref, err |-> err]

\* the body of generate_adjoint after the copy c = [store, ref] is made: the
\* store when the call ends, the tree it returns and the error it raises
AdjointOf(c) ==
    LET name_suffix == "_adj"
        ad_psyir == c.ref
        \* containers[1], the FileContainer being containers[0]
        container == c.store[ad_psyir].modules[1]
        s1 == [c.store EXCEPT
                  ![ad_psyir].modules[1].name = @ \o name_suffix]
        routines == s1[ad_psyir].routines
        tl_kernel_name == routines[1]
        table == s1[container.table].names
        adj_kernel_name == tl_kernel_name \o name_suffix
        adj_kernel_sym == NewSymbolName(table, adj_kernel_name)
        s2 == [s1 EXCEPT
                  ![container.table].names =
                      (@ \cup {adj_kernel_sym}) \ {tl_kernel_name},
                  ![ad_psyir].routines[1] = adj_kernel_sym]
    IN  IF Len(c.store[ad_psyir].modules) + 1 # 2
        THEN AdjointResult(c.store, NoNode, "not_one_module")
        ELSE IF Len(routines) # 1
        THEN AdjointResult(s1, NoNode, "not_one_routine")
        ELSE IF tl_kernel_name \notin table
        THEN AdjointResult(s1, NoNode, "key_error")
        ELSE AdjointResult(s2, ad_psyir, "ok")

\* (mutant) generate_adjoint that changes the tree it is given
GenerateAdjointInPlace(store, tl_psyir) ==
    AdjointOf([store |-> store, ref |-> tl_psyir])

\* generate_adjoint(tl_psyir), which starts with ad_psyir = tl_psyir.copy()
GenerateAdjointOf(store, tl_psyir) ==
    AdjointOf(TreeCopy(store, tl_psyir))

AdjointCall(t, out) ==
    [op |-> "generate_adjoint", target |-> t, has |-> FALSE,
     size |-> out.ref, err |-> out.err, var |-> ""]

\* ad_psyir = generate_adjoint(tl_psyir); when the call raises, the objects
\* it has made are out of reach and are dropped from the store
GenerateAdjoint(t) ==
    /\ Cardinality(Trees(given)) < MaxTrees
    /\ \E out \in {GenerateAdjointOf(given, t)} :
          /\ given' = IF out.err = "ok" THEN out.store
                      ELSE SubSeq(out.store, 1, Len(given))
          /\ last' = AdjointCall(t, out)
    /\ UNCHANGED <<nodes, symtab, mem, kern, sched, lsym, env, pc>>

\* the symbol tables of the module of the tangent-linear kernel k
TlTables(k) ==
    {{k}, {k, k \o "_adj"}, {k, k \o "_adj", k \o "_adj_1"}, {k, "x"}, {"x"}}

\* the routines of the file: none, the kernel, or the kernel and another
TlRoutines(k) == {<<>>, <<k>>, <<k, "tl_kern2">>}

\* the files given: no module, one or two, without a routine, with one or
\* with two
TlStores ==
    UNION {
        {<<[kind |-> "tree", modules |-> <<>>, routines |-> rs]>> :
            rs \in TlRoutines(k)}
        \cup
        {<<[kind |-> "tree", modules |-> <<[name |-> m, table |-> 2]>>,
            routines |-> rs],
           [kind |-> "table", names |-> tb]>> :
            rs \in TlRoutines(k), tb \in TlTables(k)}
        \cup
        {<<[kind |-> "tree",
            modules |-> <<[name |-> m, table |-> 2],
                          [name |-> "other_mod", table |-> 3]>>,
            routines |-> rs],
           [kind |-> "table", names |-> tb],
           [kind |-> "table", names |-> {"y"}]>> :
            rs \in TlRoutines(k) \ {<<>>}, tb \in TlTables(k)} :
        k \in {"tl_kern", "k"}, m \in {"tl_mod", "m"}}

InitAdj ==
    /\ given \in TlStores
    /\ sched = <<>>
    /\ lsym = {}
    /\ env = <<>>
    /\ pc = 0
    /\ mem = Memory(1)
    /\ nodes = Routine(Lit(1), Lit(1), Lit(1), AssignBody("tmp", "i"))
    /\ symtab = [names |-> VarNames, tags |-> <<>>]
    /\ last = NoCall
    /\ kern = PlainKernel

NextAdj == \E t \in Trees(given) : GenerateAdjoint(t)

SpecAdj == InitAdj /\ [][NextAdj]_vars

(***************************************************************************)
(* What the claims speak about.                                            *)
(***************************************************************************)
\* the loop has been blocked by a successful apply
Blocked(ns, n) == "blocked" \in ns[n].ann

\* the outer loop that apply created around a blocked loop
OuterOf(ns, n) == ns[ns[n].parent].parent

StepOf(ns, n) == ns[ns[n].children[3]]

\* C1: after apply has blocked the loop 'do i = 1, N, 1' with a block size
\* B >= 1, the loop variable i takes the values 1, 2, ..., N, each once and in
\* this order.
C1_BlockedLoopVisitsEachValueOnce ==
    (/\ Blocked(nodes, TheLoop)
     /\ StepOf(nodes, TheLoop).val = 1
     /\ StepOf(nodes, OuterOf(nodes, TheLoop)).val >= 1
     /\ Eval(nodes, nodes[OuterOf(nodes, TheLoop)].children[1], mem) = 1)
    => ValuesOf(Run(nodes, mem).trace, "i") = Range(1, mem["n"])

IsBlockCall(c) == c.op \in {"validate", "apply"}

\* The block size of a call, 32 when the option is absent
SizeOfCall(c) == IF c.has THEN c.size ELSE 32

\* C2 (as claimed, for calls with a positive block size): every validate or
\* apply on a loop that carries the blocked marker raises the "already blocked"
\* error and leaves the tree unchanged.
C2_AlwaysAlreadyBlocked ==
    [][(/\ IsBlockCall(last')
        /\ SizeOfCall(last') >= 1
        /\ Blocked(nodes, last'.target))
        => (last'.err = "already_blocked" /\ nodes' = nodes)]_vars

\* C2 (amended): every validate or apply on a loop that carries the blocked
\* marker raises a TransformationError and leaves the tree and the symbol table
\* unchanged; the error is the "already blocked" one unless the magnitude of
\* the step exceeds that of the block size of this call, and then it is the
\* "larger step" one.
C2_BlockedLoopIsRejected ==
    [][(IsBlockCall(last') /\ Blocked(nodes, last'.target))
        => /\ nodes' = nodes
           /\ symtab' = symtab
           /\ last'.err = IF Abs(StepOf(nodes, last'.target).val)
                                > Abs(SizeOfCall(last'))
                          THEN "larger_step" ELSE "already_blocked"]_vars

\* C2 witness: a call on an already blocked loop has been rejected
C2_Witness ==
    /\ IsBlockCall(last)
    /\ last.err = "already_blocked"
    /\ Cardinality({n \in Loops(nodes) : Blocked(nodes, n)}) >= 2

\* The tree ns2 is ns with the loop n blocked with block size B, as C3 says
BlockedShape(ns, ns2, st, n, B) ==
    LET p == ns[n].parent
        k == Position(ns, n)
        o == ns2[p].children[k]
        S == ns[n].children[1]
        E == ns[n].children[2]
        step == ns[n].children[3]
        body == ns[n].children[4]
        oc == ns2[o].children
        asg == ns2[oc[4]].children[1]
        lhs == ns2[ns2[asg].children[1]]
        rhs == ns2[ns2[asg].children[2]]
        add == ns2[rhs.children[1]]
        ecopy == ns2[rhs.children[2]]
        out == ns2[o].sym
        el == lhs.sym
    IN  /\ ns2[p].children = [ns[p].children EXCEPT ![k] = o]
        /\ o # n /\ ns2[o].kind = "Loop" /\ ns2[o].parent = p
        /\ out \notin st.names /\ el \notin st.names /\ out # el
        /\ Len(oc) = 4
        /\ oc[1] = S /\ ns2[S] = [ns[S] EXCEPT !.parent = o]
        /\ oc[2] = E /\ ns2[E] = [ns[E] EXCEPT !.parent = o]
        /\ ns2[oc[3]].kind = "Literal" /\ ns2[oc[3]].val = B
        /\ ns2[oc[4]].kind = "Schedule" /\ ns2[oc[4]].children = <<asg, n>>
        /\ ns2[asg].kind = "Assignment" /\ lhs.kind = "Reference"
        /\ rhs.kind = "BinaryOperation" /\ rhs.sym = "MIN"
        /\ add.kind = "BinaryOperation" /\ add.sym = "ADD"
        /\ ns2[add.children[1]].kind = "Reference"
        /\ ns2[add.children[1]].sym = out
        /\ ns2[add.children[2]].kind = "Literal"
        /\ ns2[add.children[2]].val = B
        /\ ecopy.kind = ns[E].kind /\ ecopy.sym = ns[E].sym
        /\ ecopy.val = ns[E].val
        /\ ns2[n].kind = "Loop" /\ ns2[n].sym = ns[n].sym
        /\ Len(ns2[n].children) = 4
        /\ ns2[ns2[n].children[1]].kind = "Reference"
        /\ ns2[ns2[n].children[1]].sym = out
        /\ ns2[ns2[n].children[2]].kind = "Reference"
        /\ ns2[ns2[n].children[2]].sym = el
        /\ ns2[n].children[3] = step /\ ns2[step] = ns[step]
        /\ ns2[n].children[4] = body
        /\ \A x \in Descendants(ns, body) : ns2[x] = ns[x]

\* C3: a successful apply on a loop with a positive step s and block size B
\* (32 when the option is absent) puts, at the loop's position, an outer loop
\* over a new variable from the original start S to the original stop E with
\* step B, whose body is el_inner = MIN(out_var + B, E) followed by the
\* original loop, which now runs from out_var to el_inner with its step and
\* its body as they were.
C3_BlockedLoopShape ==
    [][(/\ last'.op = "apply"
        /\ last'.err = "ok"
        /\ StepOf(nodes, last'.target).val > 0)
        => BlockedShape(nodes, nodes', symtab, last'.target,
                        SizeOfCall(last'))]_vars

\* C3 witness: apply has blocked a loop of positive step with the default
\* block size
C3_Witness ==
    /\ last.op = "apply" /\ last.err = "ok"
    /\ StepOf(nodes, last.target).val > 0
    /\ ~last.has

\* C4 (as claimed, in its weakest reading): a call on a loop whose step is not
\* a literal raises the non-constant-step error, and a call on a loop whose
\* literal integer step is larger in magnitude than the block size raises some
\* TransformationError.
C4_StepChecksReject ==
    IsBlockCall(last) =>
        LET step == StepOf(nodes, last.target)
        IN  /\ step.kind # "Literal" => last.err = "nonconst_step"
            /\ (/\ step.kind = "Literal"
                /\ step.dtype = "integer"
                /\ Abs(step.val) > SizeOfCall(last)) => last.err # "ok"

\* C5 (as claimed): a call whose 'blocksize' option is zero or negative raises
\* a TransformationError.
C5_NonPositiveBlockSizeRejected ==
    (IsBlockCall(last) /\ last.has /\ last.size <= 0) => last.err # "ok"

\* the variables the body of loop n writes, among the loop variable and the
\* variables read in the start and stop expressions
BodyWrites(ns, n) ==
    LET body == Descendants(ns, ns[n].children[4])
        bounds == Descendants(ns, ns[n].children[1])
                  \cup Descendants(ns, ns[n].children[2])
        read == {ns[x].sym : x \in {y \in bounds : ns[y].kind = "Reference"}}
        written ==
            {ns[ns[x].children[1]].sym :
                x \in {y \in body : ns[y].kind = "Assignment"}}
            \cup {ns[x].sym : x \in {y \in body : ns[y].kind = "Loop"}}
    IN  written \cap (read \cup {ns[n].sym})

\* the checks that validate makes before the dependency analysis all pass
EarlierChecksPass(ns, n, B) ==
    LET step == StepOf(ns, n)
    IN  /\ step.kind = "Literal" /\ step.dtype = "integer"
        /\ step.val # 0 /\ Abs(step.val) <= Abs(B)
        /\ ~Blocked(ns, n)

\* C6 (as claimed): whenever the body writes the loop variable or a variable
\* read in the start or stop expression the call raises the error that names
\* the variable and the tree is unchanged; otherwise the loop is accepted.
C6_WriteAlwaysNamed ==
    [][IsBlockCall(last') =>
        IF BodyWrites(nodes, last'.target) # {}
        THEN /\ last'.err = "boundary_written"
             /\ last'.var \in BodyWrites(nodes, last'.target)
             /\ nodes' = nodes
        ELSE last'.err = "ok"]_vars

\* C6 (amended): for a loop that passes the checks made before the dependency
\* analysis (literal, integer, non-zero step no larger in magnitude than the
\* block size; not already blocked), the call raises the error naming the
\* variable, and leaves the tree unchanged, whenever the body writes the loop
\* variable or a variable read in the start or stop expression, and accepts
\* the loop when the body writes none of them.
C6_WriteToBoundaryRejected ==
    [][(/\ IsBlockCall(last')
        /\ EarlierChecksPass(nodes, last'.target, SizeOfCall(last')))
        => IF BodyWrites(nodes, last'.target) # {}
           THEN /\ last'.err = "boundary_written"
                /\ last'.var \in BodyWrites(nodes, last'.target)
                /\ nodes' = nodes
                /\ symtab' = symtab
           ELSE last'.err = "ok"]_vars

\* C6 witness: a call was rejected naming a variable that the body writes
C6_Witness ==
    /\ IsBlockCall(last)
    /\ last.err = "boundary_written"
    /\ last.var \in BodyWrites(nodes, last.target)

IsValidateCall(c) ==
    c.op \in {"validate", "tiling_validate", "inline_validate"}

\* C7: a validate call of BlockLoopTrans, LoopTiling2DTrans or
\* KernelModuleInlineTrans, returning or raising, leaves the tree with its
\* annotations, the symbol table and the kernel unchanged, and the same call
\* made again has the same outcome.
C7_ValidateLeavesTreeUnchanged ==
    [][IsValidateCall(last') =>
        /\ nodes' = nodes
        /\ symtab' = symtab
        /\ kern' = kern
        /\ (/\ last.op = last'.op /\ last.target = last'.target
            /\ last.has = last'.has /\ last.size = last'.size)
           => (last'.err = last.err /\ last'.var = last.var)]_vars

\* C7 witness: the tiling validate has accepted a nest of two loops, after
\* both of its blocking validates
C7_Witness ==
    last.op = "tiling_validate" /\ last.err = "ok"

\* the kernel has run to its end
Done == pc = Len(sched) + 1 /\ pc > 1

\* the intrinsic of the kernel as written
GivenIntrinsic ==
    LET rhs == given.sched[2].rhs
    IN  IF rhs.op = "ADD" THEN rhs.args[1] ELSE rhs

\* the given intrinsic has been lowered: no operation of it is left
Lowered(op) ==
    /\ GivenIntrinsic.op = op
    /\ \A t \in Operations(sched) :
          SubExpr(sched[t[1]].rhs, t[2]).op \notin {"ABS", "SIGN", "MIN"}

\* the value the kernel as written gives to r
GivenResult == ExecStmts(given.sched, 1, given.env)["r"]

\* C8 (as claimed): the statements NemoSignTrans.apply generates for
\* r = SIGN(a, b), executed, give r the magnitude of a with the sign of b.
C8_SignLoweringKeepsValue ==
    (Lowered("SIGN") /\ Done) => env["r"] = GivenResult

\* C9: the statements NemoAbsTrans.apply generates for r = ... ABS(x) ...,
\* executed with the rewritten assignment, give r the value of the original
\* assignment, for negative, zero and positive x.
C9_AbsLoweringKeepsValue ==
    (Lowered("ABS") /\ Done) => env["r"] = GivenResult

\* C9 witness: a lowered ABS of a negative operand has run to its end
C9_Witness ==
    Lowered("ABS") /\ Done /\ given.env["a"] < 0 /\ env["r"] = -given.env["a"]

\* the least of the values of the arguments of the given intrinsic
LeastArgument ==
    MinOf([j \in 1..Len(GivenIntrinsic.args) |->
              given.env[GivenIntrinsic.args[j].name]])

\* the result variable of the lowered MIN is the variable the rewritten
\* assignment reads at the place of the intrinsic
MinResultVar ==
    LET rhs == sched[Len(sched) - 1].rhs
    IN  IF rhs.op = "ADD" THEN rhs.args[1].name ELSE rhs.name

\* C10: the statements NemoMinTrans.apply generates for r = MIN(a, b, ...),
\* executed, leave the result variable equal to the smallest argument: it
\* starts as the first argument and each later argument replaces it exactly
\* when it is strictly smaller, so r gets the value of the original statement.
C10_MinLoweringGivesLeast ==
    /\ Lowered("MIN") =>
          /\ sched[2] = Assign(MinResultVar, GivenIntrinsic.args[1])
          /\ \A j \in 2..Len(GivenIntrinsic.args) :
                /\ sched[2 * j - 1].k = "Assignment"
                /\ sched[2 * j - 1].rhs = GivenIntrinsic.args[j]
                /\ sched[2 * j] =
                      IfBlock(EBinary("LT", ERef(sched[2 * j - 1].lhs),
                                      ERef(MinResultVar)),
                              <<Assign(MinResultVar,
                                       ERef(sched[2 * j - 1].lhs))>>, <<>>)
    /\ (Lowered("MIN") /\ Done)
          => /\ env[MinResultVar] = LeastArgument
             /\ env["r"] = GivenResult

\* C10 witness: a lowered MIN of three arguments, the last one the smallest,
\* has run to its end
C10_Witness ==
    /\ Lowered("MIN") /\ Done
    /\ Len(GivenIntrinsic.args) = 3
    /\ given.env["c"] < given.env["a"] /\ given.env["c"] < given.env["b"]
    /\ env[MinResultVar] = given.env["c"]

\* the call was LoopTiling2DTrans.apply
IsTilingApply(c) == c.op = "tiling_apply"

IsTilingCall(c) == c.op \in {"tiling_validate", "tiling_apply"}

\* the body of the loop is exactly one statement, a Loop
SingleLoopBody(ns, n) ==
    /\ Len(ns[ns[n].children[4]].children) = 1
    /\ ns[ns[ns[n].children[4]].children[1]].kind = "Loop"

\* C12: LoopTiling2DTrans.validate and apply raise and leave the tree and the
\* symbol table unchanged when the body of the target loop is not exactly
\* one child that is a Loop (no child, two or more, or one that is no loop).
C12_TilingNeedsSingleLoopBody ==
    [][(IsTilingCall(last') /\ ~SingleLoopBody(nodes, last'.target))
          => /\ last'.err \in {"tiling_body_count", "tiling_body_kind"}
             /\ nodes' = nodes
             /\ symtab' = symtab]_vars

\* C12 witness: apply has rejected a loop whose body is a loop and a second
\* statement
C12_Witness ==
    /\ last.op = "tiling_apply"
    /\ last.err = "tiling_body_count"
    /\ Len(nodes[nodes[last.target].children[4]].children) = 2
    /\ nodes[nodes[nodes[last.target].children[4]].children[1]].kind = "Loop"

\* the loop is a statement of the body of the loop outer
DirectlyIn(ns, loop, outer) ==
    /\ ns[loop].parent = ns[outer].children[4]
    /\ ns[loop].parent # NoNode
    /\ loop \in {ns[ns[loop].parent].children[k] :
                    k \in 1..Len(ns[ns[loop].parent].children)}

\* tile is the loop blocking has put around the loop n of the tree ns: it
\* runs over the bounds n had, with the out_var of n as its variable
TileLoopOf(ns, ns2, st2, tile, n) ==
    /\ ns2[tile].kind = "Loop"
    /\ OutVarTag(ns, n) \in DOMAIN st2.tags
    /\ ns2[tile].sym = st2.tags[OutVarTag(ns, n)]
    /\ ns2[tile].children[1] = ns[n].children[1]
    /\ ns2[tile].children[2] = ns[n].children[2]

\* C13: after a successful LoopTiling2DTrans.apply on a loop over i whose
\* body is exactly one loop over j, the loops at the place of the loop are,
\* from the outermost to the innermost, the tile loop over i, the tile loop
\* over j, the element loop over i and the element loop over j, and the body
\* of the loop over j is the original one.
C13_TiledNestOrder ==
    [][(last'.op = "tiling_apply" /\ last'.err = "ok")
          => LET n == last'.target
                 j == nodes[nodes[n].children[4]].children[1]
                 top == nodes'[nodes[n].parent].children[Position(nodes, n)]
                 loops == WalkLoops(nodes', top)
             IN  /\ Len(loops) = 4
                 /\ TileLoopOf(nodes, nodes', symtab', loops[1], n)
                 /\ TileLoopOf(nodes, nodes', symtab', loops[2], j)
                 /\ loops[3] = n /\ nodes'[n].sym = nodes[n].sym
                 /\ loops[4] = j /\ nodes'[j].sym = nodes[j].sym
                 /\ \A k \in 1..3 :
                       loops[k + 1] \in Descendants(nodes', loops[k])
                 /\ DirectlyIn(nodes', loops[2], loops[1])
                 /\ DirectlyIn(nodes', n, loops[2])
                 /\ nodes'[j].children[4] = nodes[j].children[4]
                 /\ \A d \in Descendants(nodes, nodes[j].children[4]) :
                       nodes'[d] = nodes[d]]_vars

\* C13 witness: the nest has been tiled
C13_Witness ==
    /\ last.op = "tiling_apply"
    /\ last.err = "ok"
    /\ Len(WalkLoops(nodes, Root)) = 4
    /\ nodes[last.target].sym = "i"

\* the call was an operation on a children list
IsListCall(c) ==
    c.op \in {"addchild", "append", "insert", "extend", "setitem", "assign",
              "remove", "del", "pop", "reverse"}

\* C14 (as claimed): whatever children-list operations were called on them,
\* the created Loop has exactly 4 children and the created Assignment
\* exactly 2.
C14_CreatedNodesKeepTheirCount ==
    /\ nodes[Created(nodes)].kind = "Loop"
          => Len(nodes[Created(nodes)].children) = 4
    /\ nodes[Created(nodes)].kind = "Assignment"
          => Len(nodes[Created(nodes)].children) = 2

\* C14 (amended): whatever children-list operations were called on them, the
\* created Loop has at most 4 children, data nodes at the first three
\* positions and a Schedule at the fourth, and the created Assignment has at
\* most 2 children, both data nodes; every child has the node as its parent.
C14_ChildrenKeepTheirPositions ==
    LET id == Created(nodes)
        ch == nodes[id].children
    IN  /\ nodes[id].kind = "Loop" =>
              /\ Len(ch) <= 4
              /\ \A k \in 1..Len(ch) :
                    IF k <= 3 THEN nodes[ch[k]].kind \in DataKinds
                    ELSE nodes[ch[k]].kind = "Schedule"
        /\ nodes[id].kind = "Assignment" =>
              /\ Len(ch) <= 2
              /\ \A k \in 1..Len(ch) : nodes[ch[k]].kind \in DataKinds
        /\ \A k \in 1..Len(ch) : nodes[ch[k]].parent = id

\* C14 witness: pop() has taken the Schedule off the created Loop
C14_Witness ==
    /\ last.op = "pop" /\ last.err = "ok"
    /\ nodes[Created(nodes)].kind = "Loop"
    /\ Len(nodes[Created(nodes)].children) = 3
    /\ nodes[6].parent = NoNode

RECURSIVE ChainFrom(_, _)
\* the node and its ancestors, the nearest first
ChainFrom(ns, id) ==
    IF id = NoNode THEN <<>> ELSE <<id>> \o ChainFrom(ns, ns[id].parent)

\* the nodes the call of ancestor looks at, the nearest first
ChainOfCall(ns, c) ==
    ChainFrom(ns, IF c.has THEN c.target ELSE ns[c.target].parent)

IsExcluded(ns, id, excluding) ==
    \E x \in excluding : IsInstance(ns[id].kind, x)

\* C16 (as claimed): ancestor returns none when, going up, it meets a node of
\* an excluded kind before a node of the kind asked for.
C16_ExcludedKindStopsTheWalk ==
    last.op = "ancestor" =>
        LET ch == ChainOfCall(nodes, last)
        IN  \A k \in 1..Len(ch) :
               (/\ IsExcluded(nodes, ch[k], last.excluding)
                /\ \A j \in 1..(k - 1) :
                      ~IsInstance(nodes[ch[j]].kind, last.var))
                  => last.size = NoNode

\* C16 (amended): ancestor returns the nearest node, going up from the parent
\* (from the node itself with include_self), that is of the kind asked for
\* and not of an excluded kind, and none when there is no such node; nodes of
\* an excluded kind are passed over and the walk goes on above them.
C16_AncestorSkipsExcluded ==
    last.op = "ancestor" =>
        LET ch == ChainOfCall(nodes, last)
            good == {k \in 1..Len(ch) :
                        /\ IsInstance(nodes[ch[k]].kind, last.var)
                        /\ ~IsExcluded(nodes, ch[k], last.excluding)}
        IN  IF good = {} THEN last.size = NoNode
            ELSE /\ last.size \in {ch[k] : k \in good}
                 /\ last.size = ch[CHOOSE k \in good : \A j \in good : k <= j]

\* C16 witness: ancestor(Node, excluding=Schedule) of a statement of a loop
\* body has returned the loop
C16_Witness ==
    /\ last.op = "ancestor" /\ last.var = "Node" /\ ~last.has
    /\ last.excluding = {"Schedule"}
    /\ nodes[last.target].parent # NoNode
    /\ nodes[nodes[last.target].parent].kind = "Schedule"
    /\ last.size = nodes[nodes[last.target].parent].parent
    /\ nodes[last.size].kind = "Loop"

\* Node.abs_position: the place of the node in the walk of the whole tree
AbsPosition(ns, id) == IndexOf(WalkSeq(ns, Root), id)

\* Node.depth: the number of nodes from the root down to the node
Depth(ns, id) == Len(ChainFrom(ns, id))

\* the list is a run of children of one parent, in their order
ConsecutiveRun(ns, list) ==
    \E q \in 1..Len(ns) : \E p \in 1..Len(ns[q].children) :
        /\ p + Len(list) - 1 <= Len(ns[q].children)
        /\ \A j \in 1..Len(list) : list[j] = ns[q].children[p + j - 1]

ExtractNodes(ns) == {x \in 1..Len(ns) : ns[x].kind = "ExtractNode"}

\* C17: a successful apply of the extract transformation to k consecutive
\* siblings that start at position p creates exactly one extract region
\* node, at position p of the same parent, with the depth and the absolute
\* position the first node had; its body holds exactly the k nodes in their
\* order, and the siblings before and after the run keep their order.
C17_ExtractRegionTakesThePlace ==
    [][(last'.op = "extract" /\ last'.err = "ok") =>
          LET list == last'.list
              q == nodes[list[1]].parent
              p == Position(nodes, list[1])
              old == nodes[q].children
              r == nodes'[q].children[p]
          IN  /\ Cardinality(ExtractNodes(nodes'))
                    = Cardinality(ExtractNodes(nodes)) + 1
              /\ ExtractNodes(nodes') \ ExtractNodes(nodes) = {r}
              /\ nodes'[r].parent = q
              /\ Position(nodes', r) = p
              /\ Depth(nodes', r) = Depth(nodes, list[1])
              /\ AbsPosition(nodes', r) = AbsPosition(nodes, list[1])
              /\ Len(nodes'[r].children) = 1
              /\ nodes'[nodes'[r].children[1]].kind = "Schedule"
              /\ nodes'[nodes'[r].children[1]].children = list
              /\ \A j \in 1..Len(list) :
                    nodes'[list[j]].parent = nodes'[r].children[1]
              /\ nodes'[q].children =
                    SubSeq(old, 1, p - 1) \o <<r>>
                    \o SubSeq(old, p + Len(list), Len(old))]_vars

\* C17 witness: the three statements of the schedule are in one extract
\* region, the only child of the schedule
C17_Witness ==
    /\ last.op = "extract" /\ last.err = "ok" /\ last.size = 3
    /\ Len(nodes[Root].children) = 1
    /\ nodes[nodes[Root].children[1]].kind = "ExtractNode"

\* the call was an apply of a region transformation
IsRegionCall(c) == c.op \in {"extract", "profile"}

\* C18: the region transformations raise and leave the schedule unchanged
\* for a list that is not a run of consecutive siblings in increasing
\* position (a duplicate, a gap, a reversed or shuffled order, nodes of
\* different parents), and their check of the list accepts every such run.
C18_ListMustBeConsecutiveRun ==
    /\ [](\A list \in NodeLists(nodes) :
             /\ \A trans \in {"extract", "profile"} :
                   ConsecutiveRun(nodes, list)
                      <=> RegionValidate(nodes, list, trans, FALSE).err
                             \notin {"not_same_parent", "not_consecutive"}
             /\ ConsecutiveRun(nodes, list)
                   => RegionValidate(nodes, list, "profile", FALSE).err = "ok")
    /\ [][IsRegionCall(last') =>
             /\ last'.err # "ok" => nodes' = nodes
             /\ last'.err = "ok" => ConsecutiveRun(nodes, last'.list)]_vars

\* C18 witness: profile has rejected a list of siblings for their order and
\* has accepted a run of two
C18_Witness ==
    \/ last.op = "profile" /\ last.err = "not_consecutive"
          /\ Len(nodes[Root].children) = 3
    \/ last.op = "profile" /\ last.err = "ok" /\ last.size = 2

\* the kinds the extract transformation does not enclose
NotExtractable == {"ExtractNode", "HaloExchange", "GlobalSum"}

\* C19: the extract transformation raises and adds no region for a list in
\* which a node is an extract region, a halo exchange or a global sum; so it
\* raises for the region a previous apply has created.
C19_ExtractRejectsRegionsAndDistMem ==
    /\ [](\A list \in NodeLists(nodes), distmem \in BOOLEAN :
             (\E j \in 1..Len(list) : nodes[list[j]].kind \in NotExtractable)
                => RegionValidate(nodes, list, "extract", distmem).err # "ok")
    /\ [][last'.op = "extract" =>
             /\ last'.err # "ok" => nodes' = nodes
             /\ last'.err = "ok" =>
                   \A j \in 1..Len(last'.list) :
                      nodes[last'.list[j]].kind \notin NotExtractable]_vars

\* C19 witness: extract has been refused on a schedule whose only node of a
\* kind it does not enclose is an extract region
C19_Witness ==
    /\ last.op = "extract" /\ last.err = "cannot_enclose"
    /\ ExtractNodes(nodes) # {}
    /\ \A x \in 1..Len(nodes) :
          nodes[x].kind \notin {"HaloExchange", "GlobalSum"}

RECURSIVE Targets(_)
\* the variables the statements assign to, those in the branches of an
\* IfBlock too
Targets(stmts) ==
    IF stmts = <<>> THEN {}
    ELSE LET s == Head(stmts)
         IN  (IF s.k = "Assignment" THEN {s.lhs}
              ELSE Targets(s.then) \cup Targets(s.else))
             \cup Targets(Tail(stmts))

\* the variables the statements of the step are the first to assign to
CreatedNames == Targets(sched') \ Targets(sched)

\* the temporaries the lowering of the operation creates: two for ABS, two
\* and those of the ABS for SIGN, one for each argument for MIN
TemporariesOf(node) ==
    IF node.op = "ABS" THEN 2
    ELSE IF node.op = "SIGN" THEN 4
    ELSE Len(node.args)

\* the step lowers the operation t = <<statement, path>>
LowersAt(t) ==
    /\ last'.err = "ok"
    /\ \/ AbsTrans(t[1], t[2])
       \/ SignTrans(t[1], t[2])
       \/ MinTrans(t[1], t[2])

\* C20: every temporary a lowering creates gets a name that was not in the
\* symbol table before, so the names created by the lowerings that share a
\* table are pairwise distinct and distinct from the names already there;
\* and the names depend on the table and the lowering only, not on the
\* place of the operation.
C20_TemporariesGetFreshNames ==
    /\ [](\A t \in Operations(sched), u \in Operations(sched) :
             LET x == SubExpr(sched[t[1]].rhs, t[2])
                 y == SubExpr(sched[u[1]].rhs, u[2])
             IN  /\ (x.op = "ABS" /\ y.op = "ABS") =>
                       AbsApply(sched, lsym, t[1], t[2]).syms
                          = AbsApply(sched, lsym, u[1], u[2]).syms
                 /\ (x.op = "SIGN" /\ y.op = "SIGN") =>
                       SignApply(sched, lsym, t[1], t[2]).syms
                          = SignApply(sched, lsym, u[1], u[2]).syms
                 /\ (x.k = "NaryOperation" /\ x.k = y.k /\ x.op = "MIN"
                       /\ y.op = "MIN" /\ Len(x.args) = Len(y.args)) =>
                       MinApply(sched, lsym, t[1], t[2]).syms
                          = MinApply(sched, lsym, u[1], u[2]).syms)
    /\ [][\A t \in Operations(sched) :
             LowersAt(t) =>
                /\ CreatedNames \cap lsym = {}
                /\ Cardinality(CreatedNames)
                      = TemporariesOf(SubExpr(sched[t[1]].rhs, t[2]))
                /\ lsym' = lsym \cup CreatedNames]_vars

\* C20 witness: two lowerings have shared a table that held tmp_min, the
\* second a MIN of three arguments
C20_Witness ==
    /\ last.op = "min_apply" /\ last.err = "ok"
    /\ {"tmp_min", "tmp_min_1", "tmp_min_2", "res_min", "res_abs_1"}
          \subseteq lsym
    /\ {"tmp_min_1", "tmp_min_2", "res_abs_1"} \subseteq Targets(sched)

\* C21: a generation from a schedule that has not changed since the last
\* one gives the text of the last one and makes no name, neither a variable
\* nor a region name; and after a generation any two profile regions, those
\* around kernels of one name too, differ in their variable and in their
\* region name.
C21_GenerationIsRepeatable ==
    [][last'.op = "gen" =>
          /\ pc >= 1 =>
                /\ sched' = sched
                /\ nodes' = nodes
                /\ symtab' = symtab
                /\ lsym' = lsym
          /\ \A x \in ProfileNodes(nodes'), y \in ProfileNodes(nodes') :
                x # y => /\ nodes'[x].sym # nodes'[y].sym
                         /\ nodes'[x].dtype # nodes'[y].dtype
                         /\ nodes'[x].dtype # ""]_vars

\* C21 witness: code has been generated twice for two regions, each around
\* one of two kernels of the same name
C21_Witness ==
    /\ last.op = "gen" /\ pc = 2 /\ given = sched
    /\ Cardinality(ProfileNodes(nodes)) = 2
    /\ nodes[2].sym = nodes[3].sym
    /\ nodes[nodes[2].parent].parent # nodes[nodes[3].parent].parent
    /\ \A x \in ProfileNodes(nodes) : Len(KernelsIn(nodes, x)) = 1

\* C22: when apply blocks a loop with the integer step s, s # 0, and a block
\* size B >= |s|, the loop variable takes in the blocked loops the values it
\* took in the loop before, in the same order, none twice and none added.
C22_BlockedLoopKeepsIterations ==
    [][(/\ last'.op = "apply" /\ last'.err = "ok"
        /\ last'.target = TheLoop
        /\ ~Blocked(nodes, TheLoop) /\ Blocked(nodes', TheLoop)
        /\ StepOf(nodes, TheLoop).val # 0
        /\ SizeOfCall(last') >= Abs(StepOf(nodes, TheLoop).val))
       => ValuesOf(Run(nodes', mem).trace, "i")
             = ValuesOf(Run(nodes, mem).trace, "i")]_vars

\* the intrinsics that trans is to replace
IsIntrinsic(e) == IsOperation(e) /\ e.op \in {"ABS", "SIGN", "MIN"}

RECURSIVE AllExprs(_)
\* every expression of the statements, those of the IfBlocks too
AllExprs(stmts) ==
    IF stmts = <<>> THEN <<>>
    ELSE LET s == Head(stmts)
         IN  (IF s.k = "Assignment" THEN PreOrder(s.rhs)
              ELSE PreOrder(s.cond) \o AllExprs(s.then) \o AllExprs(s.else))
             \o AllExprs(Tail(stmts))

IntrinsicsIn(stmts) ==
    {j \in 1..Len(AllExprs(stmts)) : IsIntrinsic(AllExprs(stmts)[j])}

\* C23: trans on a kernel whose intrinsics are all in assignments returns
\* without raising and leaves no ABS, SIGN or MIN in the schedule, for MIN
\* of two arguments or more and for intrinsics inside each other.
C23_TransLeavesNoIntrinsic ==
    [][last'.op = "trans" =>
          /\ last'.err = "ok"
          /\ IntrinsicsIn(sched') = {}]_vars

\* the statement is the IfBlock that NemoAbsTrans.apply generates
IsAbsIfBlock(s) ==
    /\ s.k = "IfBlock"
    /\ s.cond.args[1].k = "Reference"
    /\ s.cond.args[1].name = "tmp_abs"

\* the branch of the IfBlock that executes with the values v
BranchTaken(s, v) == IF EvalX(s.cond, v) = 1 THEN s.then ELSE s.else

\* the branch is res = tmp * -1.0
Negates(branch) ==
    /\ Len(branch) = 1
    /\ branch[1].rhs.op = "MUL"
    /\ branch[1].rhs.args[2] = ELit(-1)

\* the branch is res = tmp
PassesThrough(branch) ==
    /\ Len(branch) = 1
    /\ branch[1].rhs.k = "Reference"

\* C24: when the IfBlock generated by NemoAbsTrans.apply executes, its
\* comparison is a strict one, the branch result = operand * -1.0 executes
\* exactly when the operand is less than zero, and the branch
\* result = operand executes for every other operand, zero included.
C24_AbsNegatesOnlyNegative ==
    [][(/\ pc \in 1..Len(sched) /\ pc' = pc + 1
        /\ IsAbsIfBlock(sched[pc]))
       => LET s == sched[pc]
              operand == env[s.cond.args[1].name]
          IN  /\ s.cond.op \in {"LT", "GT"}
              /\ Negates(BranchTaken(s, env)) <=> operand < 0
              /\ PassesThrough(BranchTaken(s, env)) <=> operand >= 0]_vars

\* the variables the statement reads
Reads(s) ==
    {AllExprs(<<s>>)[j].name :
        j \in {i \in 1..Len(AllExprs(<<s>>)) :
                  AllExprs(<<s>>)[i].k = "Reference"}}

\* C25: a lowering of the operation at a path of the assignment a puts a
\* Reference to a new variable at that path, inserts the statements it
\* generates directly before the assignment and leaves the statements
\* before and after as they were; every generated statement, and the
\* rewritten assignment, reads a new variable only after a generated
\* statement has assigned it.
C25_GeneratedStatementsPrecede ==
    [][\A t \in Operations(sched) :
          LowersAt(t) =>
             LET a == t[1]
                 n == Len(sched') - Len(sched)
                 new == lsym' \ lsym
             IN  /\ n >= 2
                 /\ SubSeq(sched', 1, a - 1) = SubSeq(sched, 1, a - 1)
                 /\ SubSeq(sched', a + n + 1, Len(sched'))
                       = SubSeq(sched, a + 1, Len(sched))
                 /\ \E res \in new :
                       sched'[a + n] =
                          [sched[a] EXCEPT
                              !.rhs = ReplaceExpr(@, t[2], ERef(res))]
                 /\ \A k \in a..(a + n) :
                       Reads(sched'[k]) \cap new
                          \subseteq Targets(SubSeq(sched', a, k - 1))
                 /\ \A k \in a..(a + n - 1) :
                       Targets(<<sched'[k]>>) \subseteq new]_vars

\* C25 witness: a SIGN inside a sum has been lowered between the first and
\* the last statement of the kernel
C25_Witness ==
    /\ last.op = "sign_apply" /\ last.err = "ok"
    /\ Len(sched) = 8
    /\ sched[1] = given.sched[1] /\ sched[8] = given.sched[3]
    /\ sched[7].rhs.op = "ADD"
    /\ sched[7].rhs.args[1] = ERef("res_sign")

\* the literal integer step of the loop, 0 when the step is not one
LiteralStep(ns, n) ==
    IF StepOf(ns, n).kind = "Literal" /\ StepOf(ns, n).dtype = "integer"
    THEN StepOf(ns, n).val ELSE 0

\* C26: with the option 'tilesize' set to T >= 1, a successful
\* LoopTiling2DTrans.apply gives both tile loops the step T and ends each
\* element loop at MIN(tile start + T, stop), and validate and apply reject
\* a nest in which a loop has a step larger than T; 32 is the size only
\* when the option is absent.
C26_TileSizeIsUsed ==
    [][(/\ last'.op \in {"tiling_validate", "tiling_apply"}
        /\ SizeOfCall(last') >= 1)
       => LET n == last'.target
              T == SizeOfCall(last')
              body == nodes[nodes[n].children[4]].children
          IN  /\ (/\ Len(body) = 1 /\ nodes[body[1]].kind = "Loop"
                  /\ \/ Abs(LiteralStep(nodes, n)) > T
                     \/ Abs(LiteralStep(nodes, body[1])) > T)
                    => last'.err # "ok"
              /\ (last'.op = "tiling_apply" /\ last'.err = "ok") =>
                    LET top == nodes'[nodes[n].parent].children[
                                   Position(nodes, n)]
                        loops == WalkLoops(nodes', top)
                    IN  /\ StepOf(nodes', loops[1]).val = T
                        /\ StepOf(nodes', loops[2]).val = T
                        /\ \A x \in (Len(nodes) + 1)..Len(nodes') :
                              (nodes'[x].kind = "BinaryOperation"
                                  /\ nodes'[x].sym = "ADD")
                                 => nodes'[nodes'[x].children[2]].val = T]_vars

\* C27: KernelModuleInlineTrans.apply either returns with the kernel routine
\* below the root and its RoutineSymbol in the Container, or raises and
\* leaves the tree and every symbol table as before the call; when it
\* raises for a module name held by a symbol of the kernel that is no
\* ContainerSymbol, no RoutineSymbol and no ContainerSymbol has been added.
C27_InlineIsAllOrNothing ==
    [][last'.op = "inline_apply" =>
          IF last'.err = "ok"
          THEN /\ kern'.name \in kern'.psy
               /\ \E j \in 1..Len(kern'.root) : kern'.root[j] = kern'.name
          ELSE kern' = kern /\ nodes' = nodes /\ symtab' = symtab]_vars

\* the places of the tree that hold the node: <<parent, position>>
Holders(ns, x) ==
    {pk \in UNION {{<<p, k>> : k \in 1..Len(ns[p].children)} :
                      p \in 1..Len(ns)} :
        ns[pk[1]].children[pk[2]] = x}

\* every node below the root is in one children list, that of its parent
FullyLinked(ns) ==
    /\ ns[Root].parent = NoNode
    /\ Holders(ns, Root) = {}
    /\ \A x \in Descendants(ns, Root) \ {Root} :
          /\ Cardinality(Holders(ns, x)) = 1
          /\ \A pk \in Holders(ns, x) : ns[x].parent = pk[1]

\* C28: after a successful BlockLoopTrans.apply every node below the root is
\* in exactly one children list and its parent is the node with that list;
\* the start and the stop of the loop are the first two children of the new
\* outer loop and of no other node, the loop is the second statement of the
\* body of the outer loop and nowhere else, and the outer loop is where the
\* loop was in its parent.
C28_BlockedTreeIsLinked ==
    [][(/\ last'.op = "apply" /\ last'.err = "ok"
        /\ ~Blocked(nodes, last'.target))
       => LET n == last'.target
              outer == OuterOf(nodes', n)
              start == nodes[n].children[1]
              stop == nodes[n].children[2]
          IN  /\ FullyLinked(nodes')
              /\ nodes'[outer].kind = "Loop"
              /\ Holders(nodes', start) = {<<outer, 1>>}
              /\ Holders(nodes', stop) = {<<outer, 2>>}
              /\ Holders(nodes', n) = {<<nodes'[outer].children[4], 2>>}
              /\ Holders(nodes', outer)
                    = {<<nodes[n].parent, Position(nodes, n)>>}]_vars

\* C28 witness: the inner loop of a nest has been blocked
C28_Witness ==
    /\ last.op = "apply" /\ last.err = "ok"
    /\ Blocked(nodes, last.target)
    /\ last.target # TheLoop
    /\ FullyLinked(nodes)

\* C29: the TransformationError that LoopTiling2DTrans.validate raises for a
\* loop whose body is not exactly one loop has a message that is not empty.
C29_RejectionHasMessage ==
    [][(/\ last'.op = "tiling_validate"
        /\ ~SingleLoopBody(nodes, last'.target))
       => /\ last'.err # "ok"
          /\ ErrorMessage(last'.err) # ""]_vars

\* C30: generate_adjoint leaves every object of the tree it is given as it
\* was, also when it raises because the tree does not hold one module and
\* one routine; the tree it returns is a new one, whose module has the name
\* of the given one with _adj, whose routine has the name of a new symbol of
\* the symbol table of the module, kernel_adj or kernel_adj_k, and whose
\* symbol table of the module holds the other symbols but not the kernel's.
C30_AdjointWorksOnCopy ==
    [][last'.op = "generate_adjoint" =>
          LET t == last'.target
              ad == last'.size
              tl_module == given[t].modules[1]
              ad_module == given'[ad].modules[1]
              kernel == given[t].routines[1]
              adjoint == given'[ad].routines[1]
          IN  /\ \A r \in 1..Len(given) : given'[r] = given[r]
              /\ (Len(given[t].modules) # 1 \/ Len(given[t].routines) # 1)
                    => last'.err \in {"not_one_module", "not_one_routine"}
              /\ last'.err # "ok" => given' = given
              /\ last'.err = "ok" =>
                    /\ ad > Len(given)
                    /\ ad_module.table > Len(given)
                    /\ ad_module.name = tl_module.name \o "_adj"
                    /\ adjoint \notin given[tl_module.table].names
                    /\ adjoint \in {kernel \o "_adj", kernel \o "_adj_1",
                                   kernel \o "_adj_2"}
                    /\ given'[ad_module.table].names
                          = (given[tl_module.table].names \ {kernel})
                               \cup {adjoint}
                    /\ Len(given'[ad].routines) = 1]_vars

\* C30 witness: the adjoint of a kernel whose module already holds the name
\* kernel_adj has been returned
C30_Witness ==
    /\ last.op = "generate_adjoint" /\ last.err = "ok"
    /\ given[1].routines = <<"tl_kern">>
    /\ given[2].names = {"tl_kern", "tl_kern_adj"}
    /\ given[last.size].routines = <<"tl_kern_adj_1">>
    /\ given[last.size].modules[1].name = "tl_mod_adj"

====
